---- MODULE Spec2Model ----
(***************************************************************************)
(* OrbitOps orchestrator (src/orchestrator.py) as a state machine.         *)
(*                                                                         *)
(* One Orchestrator object, the BaseAgent objects registered with it, and  *)
(* one caller that uses the public API.  execute() is a coroutine: it runs *)
(* atomically up to `await task.agent.process(...)`, where it is suspended *)
(* until the agent's result arrives, so one execute() call is an Execute   *)
(* step followed by one ProcessReturn step per task that ran.              *)
(*                                                                         *)
(* Python values:                                                          *)
(*   dict with string keys    function with a finite set of strings as     *)
(*                            domain ({} is the empty function <<>>)       *)
(*   None (as a payload)      the value None below                         *)
(*   list                     sequence                                     *)
(*   f-string / str(e)        the sequence of its literal and formatted    *)
(*                            parts                                        *)
(*   AgentResult              record success, data, error (metadata is     *)
(*                            never read by the orchestrator)              *)
(* The "timestamp" field of a log entry is read from the event loop clock  *)
(* and nothing reads it back; log entries carry agent_id, event and data.  *)
(***************************************************************************)
EXTENDS Integers, Sequences, FiniteSets, TLC

VARIABLES
    agents,           \* Orchestrator.agents: agent_id -> agent object
    workflow,         \* Orchestrator.workflow: list of AgentTask
    status,           \* Orchestrator.status: WorkflowStatus
    results,          \* Orchestrator.results: identifier -> AgentResult
    execution_log,    \* Orchestrator.execution_log
    agent_status,     \* BaseAgent.status of every agent object
    pc,               \* "idle", or "awaiting": execute() suspended in process
    execution_order,  \* local of the current (or last) execute(): the order
    pos,              \* local of the current (or last) execute(): the index
                      \* in execution_order the loop has reached
    initial_input,    \* argument of the current (or last) execute() call
    invoked,          \* process() invocations of the current (or last) call
    entry_status,     \* agent_status when that call was entered
    call              \* the last API call and how it ended

vars == <<agents, workflow, status, results, execution_log, agent_status,
          pc, execution_order, pos, initial_input, invoked, entry_status,
          call>>

-----------------------------------------------------------------------------
(* Bounds and input sets *)

MaxTasks == 3

INITIAL == "__initial__"

None == ("None" :> 0)

AgentIds == {"A", "B", "C"}

AgentObjs == {"a1", "a2", "b1", "c1"}

\* BaseAgent.agent_id of each agent object
AgentIdOf(o) ==
    CASE o = "a1" -> "A"
      [] o = "a2" -> "A"
      [] o = "b1" -> "B"
      [] o = "c1" -> "C"

\* WorkflowStatus and AgentStatus values
WS_PENDING == "pending"
WS_RUNNING == "running"
WS_COMPLETED == "completed"
WS_FAILED == "failed"

AS_IDLE == "idle"
AS_PROCESSING == "processing"
AS_COMPLETED == "completed"
AS_ERROR == "error"

AgentResult(success, data, error) ==
    [success |-> success, data |-> data, error |-> error]

\* What process() of each agent object can return: the agents catch every
\* exception and always return an AgentResult.
AgentOutputs(o) ==
    CASE AgentIdOf(o) = "A" ->
           { AgentResult(TRUE, [y |-> 2], <<>>),
             AgentResult(TRUE, None, <<>>),
             AgentResult(FALSE, None, <<"boom">>) }
      [] AgentIdOf(o) = "B" ->
           { AgentResult(TRUE, [z |-> 3], <<>>),
             AgentResult(TRUE, [y |-> 5, z |-> 3], <<>>),
             AgentResult(FALSE, None, <<"bang">>) }
      [] AgentIdOf(o) = "C" ->
           { AgentResult(TRUE, <<>>, <<>>),
             AgentResult(FALSE, None, <<"crash">>) }

\* Seed inputs handed to execute()
SeedInputs == { None, <<>>, [x |-> 1] }

\* input_mapping is a dict: a list of (output key, input key) pairs in
\* insertion order, the output keys pairwise distinct
NoMapping == <<>>

\* (dependencies, input_mapping) pairs handed to add_task for each agent_id
Declarations(agent_id) ==
    CASE agent_id = "A" ->
           { << <<>>, NoMapping >>,
             << <<"A">>, NoMapping >>,
             << <<"C">>, NoMapping >>,
             << <<INITIAL>>, NoMapping >> }
      [] agent_id = "B" ->
           { << <<>>, NoMapping >>,
             << <<"A">>, NoMapping >>,
             << <<"A">>, << <<"y", "renamed">> >> >> }
      [] agent_id = "C" ->
           { << <<"B">>, NoMapping >>,
             << <<"A", "B">>, NoMapping >>,
             << <<"B", "A">>, NoMapping >>,
             << <<"A", "B">>, << <<"y", "y">>, <<"z", "w">> >> >> }

\* An Optional[...] argument: omitted (None), or given with a value
Omitted == <<>>

Given(value) == << value >>

\* the ways of passing a value: an empty list or dict may also be omitted
Optional(value) ==
    IF value = <<>> THEN { Omitted, Given(value) } ELSE { Given(value) }

\* the (dependencies, input_mapping) arguments of the add_task calls
Arguments(agent_id) ==
    UNION { { << dep, map >> : dep \in Optional(d[1]), map \in Optional(d[2]) } :
              d \in Declarations(agent_id) }

-----------------------------------------------------------------------------
(* Python helpers *)

\* the elements of a list
Range(seq) == { seq[i] : i \in DOMAIN seq }

\* `is not None` in place of the truth value
Truthy_not_none(d) == d # None

\* truth value of a dict-or-None
Truthy(d) == d # None /\ DOMAIN d # {}

\* a dict.update in which the keys already present are kept
DictUpdate_keep_first(base, d) ==
    [k \in (DOMAIN base) \cup (DOMAIN d) |->
        IF k \in DOMAIN base THEN base[k] ELSE d[k]]

\* dict.update: the keys of d overwrite those of base
DictUpdate(base, d) ==
    [k \in (DOMAIN base) \cup (DOMAIN d) |->
        IF k \in DOMAIN d THEN d[k] ELSE base[k]]

\* d[key] = value
DictSet(d, key, value) ==
    [k \in (DOMAIN d) \cup {key} |-> IF k = key THEN value ELSE d[k]]

\* next((t for t in wf if t.agent_id == agent_id), None) as an index, 0 = None
FirstTaskIndex(wf, agent_id) ==
    IF \E i \in DOMAIN wf : wf[i].agent_id = agent_id
    THEN CHOOSE i \in DOMAIN wf :
            /\ wf[i].agent_id = agent_id
            /\ \A j \in 1..(i - 1) : wf[j].agent_id # agent_id
    ELSE 0

\* insertion order of the keys of {task.agent_id: ... for task in wf}
RECURSIVE KeyOrder(_)
KeyOrder(wf) ==
    IF wf = <<>> THEN <<>>
    ELSE LET front == KeyOrder(SubSeq(wf, 1, Len(wf) - 1))
             id == wf[Len(wf)].agent_id
         IN  IF \E i \in DOMAIN front : front[i] = id
             THEN front
             ELSE Append(front, id)

\* the value a dict comprehension keeps for a key: that of the last task
LastTaskIndex(wf, agent_id) ==
    CHOOSE i \in DOMAIN wf :
        /\ wf[i].agent_id = agent_id
        /\ \A j \in (i + 1)..Len(wf) : wf[j].agent_id # agent_id

-----------------------------------------------------------------------------
(* Orchestrator._validate_workflow *)

\* a scan that looks at the first dependency of every task only
RECURSIVE FirstDangling_first_only(_, _, _, _)
FirstDangling_first_only(wf, agent_ids, i, j) ==
    IF i > Len(wf) THEN <<>>
    ELSE IF j > Len(wf[i].dependencies) \/ j > 1
         THEN FirstDangling_first_only(wf, agent_ids, i + 1, 1)
         ELSE IF wf[i].dependencies[j] \notin agent_ids
              THEN << wf[i].dependencies[j] >>
              ELSE FirstDangling_first_only(wf, agent_ids, i, j + 1)

\* for task in workflow: for dep_id in task.dependencies:
\*     if dep_id not in agent_ids: return False, ...
\* <<dep_id>> of the first dangling reference met from (i, j) on, else <<>>
RECURSIVE FirstDangling(_, _, _, _)
FirstDangling(wf, agent_ids, i, j) ==
    IF i > Len(wf) THEN <<>>
    ELSE IF j > Len(wf[i].dependencies)
         THEN FirstDangling(wf, agent_ids, i + 1, 1)
         ELSE IF wf[i].dependencies[j] \notin agent_ids
              THEN << wf[i].dependencies[j] >>
              ELSE FirstDangling(wf, agent_ids, i, j + 1)

\* has_cycle(agent_id, path): `visited` is shared by all calls and threaded
\* through; `path` is copied for every recursive call
RECURSIVE has_cycle(_, _, _, _)
RECURSIVE has_cycle_deps(_, _, _, _, _)
\* a has_cycle that tests `visited` before `path`
has_cycle_visited_first(wf, agent_id, path, visited) ==
    IF agent_id \in visited THEN [found |-> FALSE, visited |-> visited]
    ELSE IF agent_id \in path THEN [found |-> TRUE, visited |-> visited]
    ELSE LET t == FirstTaskIndex(wf, agent_id)
         IN  IF t = 0
             THEN [found |-> FALSE, visited |-> visited \cup {agent_id}]
             ELSE has_cycle_deps(wf, wf[t].dependencies, 1,
                                 path \cup {agent_id},
                                 visited \cup {agent_id})

has_cycle(wf, agent_id, path, visited) ==
    IF agent_id \in path THEN [found |-> TRUE, visited |-> visited]
    ELSE IF agent_id \in visited THEN [found |-> FALSE, visited |-> visited]
    ELSE LET t == FirstTaskIndex(wf, agent_id)
         IN  IF t = 0
             THEN [found |-> FALSE, visited |-> visited \cup {agent_id}]
             ELSE has_cycle_deps(wf, wf[t].dependencies, 1,
                                 path \cup {agent_id},
                                 visited \cup {agent_id})

\* for dep_id in task.dependencies: if has_cycle(dep_id, path.copy()): ...
has_cycle_deps(wf, deps, k, path, visited) ==
    IF k > Len(deps) THEN [found |-> FALSE, visited |-> visited]
    ELSE LET r == has_cycle(wf, deps[k], path, visited)
         IN  IF r.found THEN r
             ELSE has_cycle_deps(wf, deps, k + 1, path, r.visited)

\* for task in workflow: if has_cycle(task.agent_id, set()): return False, ...
\* <<agent_id>> of the first task that reports a cycle, else <<>>
RECURSIVE CycleScan(_, _, _)
CycleScan(wf, i, visited) ==
    IF i > Len(wf) THEN <<>>
    ELSE LET r == has_cycle(wf, wf[i].agent_id, {}, visited)
         IN  IF r.found THEN << wf[i].agent_id >>
             ELSE CycleScan(wf, i + 1, r.visited)

_validate_workflow(wf) ==
    LET agent_ids == { wf[i].agent_id : i \in DOMAIN wf }
        dangling == FirstDangling(wf, agent_ids, 1, 1)
        cyclic == CycleScan(wf, 1, {})
    IN  IF dangling # <<>>
        THEN [valid |-> FALSE,
              error |-> <<"Dependency", dangling[1], "not found in workflow">>]
        ELSE IF cyclic # <<>>
        THEN [valid |-> FALSE,
              error |-> <<"Circular dependency detected involving", cyclic[1]>>]
        ELSE [valid |-> TRUE, error |-> <<>>]

-----------------------------------------------------------------------------
(* Orchestrator._topological_sort *)

\* graph[dep_id].append(task.agent_id) for every task and every dependency,
\* in that order, if dep_id in graph: the list of dependents of agent_id
RECURSIVE Dependents(_, _, _, _)
Dependents(wf, agent_id, i, j) ==
    IF i > Len(wf) THEN <<>>
    ELSE IF j > Len(wf[i].dependencies)
         THEN Dependents(wf, agent_id, i + 1, 1)
         ELSE IF wf[i].dependencies[j] = agent_id
              THEN << wf[i].agent_id >> \o Dependents(wf, agent_id, i, j + 1)
              ELSE Dependents(wf, agent_id, i, j + 1)

\* for dependent in graph[agent_id]: in_degree[dependent] -= 1; enqueue at 0
RECURSIVE Relax(_, _, _, _)
Relax(dependents, k, in_degree, queue) ==
    IF k > Len(dependents) THEN [in_degree |-> in_degree, queue |-> queue]
    ELSE LET d == dependents[k]
             deg == [in_degree EXCEPT ![d] = @ - 1]
         IN  Relax(dependents, k + 1, deg,
                   IF deg[d] = 0 THEN Append(queue, d) ELSE queue)

\* a loop that takes the newest identifier of the queue: queue.pop()
RECURSIVE Kahn_lifo(_, _, _, _)
Kahn_lifo(queue, result, in_degree, graph) ==
    IF queue = <<>> THEN result
    ELSE LET agent_id == queue[Len(queue)]
             r == Relax(graph[agent_id], 1, in_degree,
                        SubSeq(queue, 1, Len(queue) - 1))
         IN  Kahn_lifo(r.queue, Append(result, agent_id), r.in_degree, graph)

\* while queue: agent_id = queue.pop(0); result.append(agent_id); ...
RECURSIVE Kahn(_, _, _, _)
Kahn(queue, result, in_degree, graph) ==
    IF queue = <<>> THEN result
    ELSE LET agent_id == Head(queue)
             r == Relax(graph[agent_id], 1, in_degree, Tail(queue))
         IN  Kahn(r.queue, Append(result, agent_id), r.in_degree, graph)

\* a sort that returns the identifiers in the order they were added
_topological_sort_declared_order(wf) ==
    LET keys == KeyOrder(wf)
    IN  IF Len(keys) # Len(wf)
        THEN [raised |-> TRUE,
              error |-> <<"Workflow has circular dependencies">>,
              order |-> <<>>]
        ELSE [raised |-> FALSE, error |-> <<>>, order |-> keys]

_topological_sort(wf) ==
    LET keys == KeyOrder(wf)
        ids == { keys[i] : i \in DOMAIN keys }
        in_degree == [id \in ids |->
                        Len(wf[LastTaskIndex(wf, id)].dependencies)]
        graph == [id \in ids |-> Dependents(wf, id, 1, 1)]
        queue == SelectSeq(keys, LAMBDA id : in_degree[id] = 0)
        result == Kahn(queue, <<>>, in_degree, graph)
    IN  IF Len(result) # Len(wf)
        THEN [raised |-> TRUE,
              error |-> <<"Workflow has circular dependencies">>,
              order |-> <<>>]
        ELSE [raised |-> FALSE, error |-> <<>>, order |-> result]

-----------------------------------------------------------------------------
(* Orchestrator._build_input_data *)

\* a mapping loop that stores the value under the output key
RECURSIVE ApplyMapping_output_key(_, _, _, _)
ApplyMapping_output_key(input_mapping, k, data, input_data) ==
    IF k > Len(input_mapping) THEN input_data
    ELSE LET output_key == input_mapping[k][1]
         IN  ApplyMapping_output_key(input_mapping, k + 1, data,
                 IF output_key \in DOMAIN data
                 THEN DictSet(input_data, output_key, data[output_key])
                 ELSE input_data)

\* for output_key, input_key in task.input_mapping.items():
\*     if output_key in dep_result.data: input_data[input_key] = ...
RECURSIVE ApplyMapping(_, _, _, _)
ApplyMapping(input_mapping, k, data, input_data) ==
    IF k > Len(input_mapping) THEN input_data
    ELSE LET output_key == input_mapping[k][1]
             input_key == input_mapping[k][2]
         IN  ApplyMapping(input_mapping, k + 1, data,
                 IF output_key \in DOMAIN data
                 THEN DictSet(input_data, input_key, data[output_key])
                 ELSE input_data)

\* the body of `for dep_id in task.dependencies`, from dependency k on
RECURSIVE BuildFrom(_, _, _, _)
BuildFrom(task, res, k, input_data) ==
    IF k > Len(task.dependencies)
    THEN [raised |-> FALSE, error |-> <<>>, input_data |-> input_data]
    ELSE LET dep_id == task.dependencies[k]
         IN  IF dep_id \notin DOMAIN res
             THEN [raised |-> TRUE,
                   error |-> <<"Dependency", dep_id, "has no result">>,
                   input_data |-> input_data]
             ELSE IF ~res[dep_id].success
             THEN [raised |-> TRUE,
                   error |-> <<"Dependency", dep_id, "failed:">>
                               \o res[dep_id].error,
                   input_data |-> input_data]
             ELSE IF Truthy(res[dep_id].data)
             THEN BuildFrom(task, res, k + 1,
                     IF task.input_mapping # <<>>
                     THEN ApplyMapping(task.input_mapping, 1,
                                       res[dep_id].data, input_data)
                     ELSE DictUpdate(input_data, res[dep_id].data))
             ELSE BuildFrom(task, res, k + 1, input_data)

_build_input_data(task, res) == BuildFrom(task, res, 1, <<>>)

-----------------------------------------------------------------------------
(* How an API call ended *)

Ok(op) == [op |-> op, outcome |-> "ok", error |-> <<>>, value |-> None]

Raised(op, error) ==
    [op |-> op, outcome |-> "raised", error |-> error, value |-> None]

Returned(op, value) ==
    [op |-> op, outcome |-> "returned", error |-> <<>>, value |-> value]

Pending(op) == [op |-> op, outcome |-> "pending", error |-> <<>>, value |-> None]

-----------------------------------------------------------------------------
(* State after Orchestrator() and the construction of the agents *)

Init ==
    /\ agents = <<>>
    /\ workflow = <<>>
    /\ status = WS_PENDING
    /\ results = <<>>
    /\ execution_log = <<>>
    /\ agent_status = [o \in AgentObjs |-> AS_IDLE]
    /\ pc = "idle"
    /\ execution_order = <<>>
    /\ pos = 0
    /\ initial_input = None
    /\ invoked = <<>>
    /\ entry_status = [o \in AgentObjs |-> AS_IDLE]
    /\ call = Ok("init")

-----------------------------------------------------------------------------
(* Orchestrator.register_agent *)

register_agent(agent) ==
    /\ pc = "idle"
    /\ agents' = DictSet(agents, AgentIdOf(agent), agent)
    /\ call' = Ok("register_agent")
    /\ UNCHANGED <<workflow, status, results, execution_log, agent_status,
                   pc, execution_order, pos, initial_input, invoked,
                   entry_status>>

(* Orchestrator.add_task *)

AgentTask(agent, agent_id, dependencies, input_mapping) ==
    [agent |-> agent, agent_id |-> agent_id,
     dependencies |-> dependencies, input_mapping |-> input_mapping]

\* `value or []`, `value or {}` for an Optional argument: None and the empty
\* value give the default
OrEmpty(value) ==
    IF value = Omitted THEN <<>>
    ELSE IF value[1] = <<>> THEN <<>> ELSE value[1]

\* an add_task that puts the new task at the head of the list
add_task_at_head(agent_id, dependencies, input_mapping) ==
    /\ pc = "idle"
    /\ IF agent_id \notin DOMAIN agents
       THEN /\ call' = Raised("add_task", <<"Agent", agent_id, "not registered">>)
            /\ UNCHANGED workflow
       ELSE /\ Len(workflow) < MaxTasks
            /\ workflow' = << AgentTask(agents[agent_id], agent_id,
                                        OrEmpty(dependencies),
                                        OrEmpty(input_mapping)) >> \o workflow
            /\ call' = Ok("add_task")
    /\ UNCHANGED <<agents, status, results, execution_log, agent_status,
                   pc, execution_order, pos, initial_input, invoked,
                   entry_status>>

add_task(agent_id, dependencies, input_mapping) ==
    /\ pc = "idle"
    /\ IF agent_id \notin DOMAIN agents
       THEN /\ call' = Raised("add_task", <<"Agent", agent_id, "not registered">>)
            /\ UNCHANGED workflow
       ELSE /\ Len(workflow) < MaxTasks
            /\ workflow' = Append(workflow,
                              AgentTask(agents[agent_id], agent_id,
                                        OrEmpty(dependencies),
                                        OrEmpty(input_mapping)))
            /\ call' = Ok("add_task")
    /\ UNCHANGED <<agents, status, results, execution_log, agent_status,
                   pc, execution_order, pos, initial_input, invoked,
                   entry_status>>

-----------------------------------------------------------------------------
(* Orchestrator.execute *)

LogEntry(agent_id, event, data) ==
    [agent_id |-> agent_id, event |-> event, data |-> data]

\* The head of `for agent_id in execution_order`, reached with the k-th
\* identifier next, inside the try block: either the loop is over, or
\* _build_input_data raises (caught by `except Exception`), or the task's
\* agent is started and execute() is suspended in `await`.
LoopHead(order, k, res, log, ast, inv) ==
    IF k > Len(order)
    THEN /\ status' = WS_COMPLETED
         /\ results' = res
         /\ execution_log' = log
         /\ agent_status' = ast
         /\ invoked' = inv
         /\ pc' = "idle"
         /\ execution_order' = order
         /\ pos' = k
         /\ call' = Returned("execute",
                       [status |-> "completed", results |-> res,
                        execution_log |-> log])
    ELSE LET agent_id == order[k]
             task == workflow[FirstTaskIndex(workflow, agent_id)]
             built == _build_input_data(task, res)
         IN  IF built.raised
             THEN /\ status' = WS_FAILED
                  /\ results' = res
                  /\ execution_log' = log
                  /\ agent_status' = ast
                  /\ invoked' = inv
                  /\ pc' = "idle"
                  /\ execution_order' = order
                  /\ pos' = k
                  /\ call' = Returned("execute",
                                [status |-> "failed", error |-> built.error,
                                 results |-> res])
             ELSE /\ status' = WS_RUNNING
                  /\ results' = res
                  /\ execution_log' =
                        Append(log, LogEntry(agent_id, "starting",
                                             built.input_data))
                  /\ agent_status' = [ast EXCEPT ![task.agent] = AS_PROCESSING]
                  /\ invoked' = Append(inv, [agent_id |-> agent_id,
                                             agent |-> task.agent,
                                             input_data |-> built.input_data])
                  /\ pc' = "awaiting"
                  /\ execution_order' = order
                  /\ pos' = k
                  /\ call' = Pending("execute")

\* an execute() that clears the results and the log before it validates
execute_clears_first(seed) ==
    /\ pc = "idle"
    /\ initial_input' = seed
    /\ entry_status' = agent_status
    /\ UNCHANGED <<agents, workflow>>
    /\ LET validation == _validate_workflow(workflow)
           seeded == IF Truthy(seed)
                     THEN (INITIAL :> AgentResult(TRUE, seed, <<>>))
                     ELSE <<>>
           sorted == _topological_sort(workflow)
       IN  IF ~validation.valid
           THEN /\ status' = WS_FAILED
                /\ results' = <<>>
                /\ execution_log' = <<>>
                /\ call' = Raised("execute",
                              <<"Invalid workflow:">> \o validation.error)
                /\ invoked' = <<>>
                /\ execution_order' = <<>>
                /\ pos' = 0
                /\ UNCHANGED <<agent_status, pc>>
           ELSE IF sorted.raised
           THEN /\ status' = WS_RUNNING
                /\ results' = seeded
                /\ execution_log' = <<>>
                /\ call' = Raised("execute", sorted.error)
                /\ invoked' = <<>>
                /\ execution_order' = <<>>
                /\ pos' = 0
                /\ UNCHANGED <<agent_status, pc>>
           ELSE LoopHead(sorted.order, 1, seeded, <<>>, agent_status, <<>>)

\* execute(initial_input) from its entry to its first suspension or its end
execute(seed) ==
    /\ pc = "idle"
    /\ initial_input' = seed
    /\ entry_status' = agent_status
    /\ UNCHANGED <<agents, workflow>>
    /\ LET validation == _validate_workflow(workflow)
           seeded == IF Truthy(seed)
                     THEN (INITIAL :> AgentResult(TRUE, seed, <<>>))
                     ELSE <<>>
           sorted == _topological_sort(workflow)
       IN  IF ~validation.valid
           THEN /\ status' = WS_FAILED
                /\ call' = Raised("execute",
                              <<"Invalid workflow:">> \o validation.error)
                /\ invoked' = <<>>
                /\ execution_order' = <<>>
                /\ pos' = 0
                /\ UNCHANGED <<results, execution_log, agent_status, pc>>
           ELSE IF sorted.raised
           THEN /\ status' = WS_RUNNING
                /\ results' = seeded
                /\ execution_log' = <<>>
                /\ call' = Raised("execute", sorted.error)
                /\ invoked' = <<>>
                /\ execution_order' = <<>>
                /\ pos' = 0
                /\ UNCHANGED <<agent_status, pc>>
           ELSE LoopHead(sorted.order, 1, seeded, <<>>, agent_status, <<>>)

\* a continuation without the `if not result.success` exit
process_return_no_halt(result) ==
    /\ pc = "awaiting"
    /\ LET agent_id == execution_order[pos]
           task == workflow[FirstTaskIndex(workflow, agent_id)]
           ast == [agent_status EXCEPT ![task.agent] =
                      IF result.success THEN AS_COMPLETED ELSE AS_ERROR]
           res == DictSet(results, agent_id, result)
           log == Append(execution_log,
                         LogEntry(agent_id, "completed", result))
       IN  /\ result \in AgentOutputs(task.agent)
           /\ LoopHead(execution_order, pos + 1, res, log, ast, invoked)
    /\ UNCHANGED <<agents, workflow, initial_input, entry_status>>

\* a continuation that runs a task once more when its first result is a
\* failure
process_return_retry(result) ==
    /\ pc = "awaiting"
    /\ LET agent_id == execution_order[pos]
           task == workflow[FirstTaskIndex(workflow, agent_id)]
           ast == [agent_status EXCEPT ![task.agent] =
                      IF result.success THEN AS_COMPLETED ELSE AS_ERROR]
           res == DictSet(results, agent_id, result)
           log == Append(execution_log,
                         LogEntry(agent_id, "completed", result))
           tried == Cardinality({ n \in DOMAIN invoked :
                                    invoked[n].agent_id = agent_id })
       IN  /\ result \in AgentOutputs(task.agent)
           /\ IF ~result.success /\ tried = 1
              THEN LoopHead(execution_order, pos, results, log, ast, invoked)
              ELSE IF ~result.success
              THEN /\ status' = WS_FAILED
                   /\ results' = res
                   /\ execution_log' = log
                   /\ agent_status' = ast
                   /\ pc' = "idle"
                   /\ call' = Returned("execute",
                                 [status |-> "failed", failed_at |-> agent_id,
                                  error |-> result.error, results |-> res])
                   /\ UNCHANGED <<invoked, execution_order, pos>>
              ELSE LoopHead(execution_order, pos + 1, res, log, ast, invoked)
    /\ UNCHANGED <<agents, workflow, initial_input, entry_status>>

\* a continuation that logs "completed" after the `if not result.success`
\* exit
process_return_unlogged_failure(result) ==
    /\ pc = "awaiting"
    /\ LET agent_id == execution_order[pos]
           task == workflow[FirstTaskIndex(workflow, agent_id)]
           ast == [agent_status EXCEPT ![task.agent] =
                      IF result.success THEN AS_COMPLETED ELSE AS_ERROR]
           res == DictSet(results, agent_id, result)
           log == Append(execution_log,
                         LogEntry(agent_id, "completed", result))
       IN  /\ result \in AgentOutputs(task.agent)
           /\ IF ~result.success
              THEN /\ status' = WS_FAILED
                   /\ results' = res
                   /\ execution_log' = execution_log
                   /\ agent_status' = ast
                   /\ pc' = "idle"
                   /\ call' = Returned("execute",
                                 [status |-> "failed", failed_at |-> agent_id,
                                  error |-> result.error, results |-> res])
                   /\ UNCHANGED <<invoked, execution_order, pos>>
              ELSE LoopHead(execution_order, pos + 1, res, log, ast, invoked)
    /\ UNCHANGED <<agents, workflow, initial_input, entry_status>>

\* a continuation that records the result after the `if not result.success`
\* exit
process_return_unrecorded_failure(result) ==
    /\ pc = "awaiting"
    /\ LET agent_id == execution_order[pos]
           task == workflow[FirstTaskIndex(workflow, agent_id)]
           ast == [agent_status EXCEPT ![task.agent] =
                      IF result.success THEN AS_COMPLETED ELSE AS_ERROR]
           res == DictSet(results, agent_id, result)
           log == Append(execution_log,
                         LogEntry(agent_id, "completed", result))
       IN  /\ result \in AgentOutputs(task.agent)
           /\ IF ~result.success
              THEN /\ status' = WS_FAILED
                   /\ results' = results
                   /\ execution_log' = log
                   /\ agent_status' = ast
                   /\ pc' = "idle"
                   /\ call' = Returned("execute",
                                 [status |-> "failed", failed_at |-> agent_id,
                                  error |-> result.error,
                                  results |-> results])
                   /\ UNCHANGED <<invoked, execution_order, pos>>
              ELSE LoopHead(execution_order, pos + 1, res, log, ast, invoked)
    /\ UNCHANGED <<agents, workflow, initial_input, entry_status>>

\* `await task.agent.process(input_data)` returns result; execute() goes on
\* to its next suspension or its end
process_return(result) ==
    /\ pc = "awaiting"
    /\ LET agent_id == execution_order[pos]
           task == workflow[FirstTaskIndex(workflow, agent_id)]
           ast == [agent_status EXCEPT ![task.agent] =
                      IF result.success THEN AS_COMPLETED ELSE AS_ERROR]
           res == DictSet(results, agent_id, result)
           log == Append(execution_log,
                         LogEntry(agent_id, "completed", result))
       IN  /\ result \in AgentOutputs(task.agent)
           /\ IF ~result.success
              THEN /\ status' = WS_FAILED
                   /\ results' = res
                   /\ execution_log' = log
                   /\ agent_status' = ast
                   /\ pc' = "idle"
                   /\ call' = Returned("execute",
                                 [status |-> "failed", failed_at |-> agent_id,
                                  error |-> result.error, results |-> res])
                   /\ UNCHANGED <<invoked, execution_order, pos>>
              ELSE LoopHead(execution_order, pos + 1, res, log, ast, invoked)
    /\ UNCHANGED <<agents, workflow, initial_input, entry_status>>

-----------------------------------------------------------------------------
(* Orchestrator.reset.  The records kept of the last execute() call, other *)
(* than the order it computed, are cleared with it.                        *)

\* a reset that leaves the agents as they are
reset_keeps_agents ==
    /\ pc = "idle"
    /\ status' = WS_PENDING
    /\ results' = <<>>
    /\ execution_log' = <<>>
    /\ call' = Ok("reset")
    /\ initial_input' = None
    /\ invoked' = <<>>
    /\ entry_status' = agent_status
    /\ UNCHANGED <<agents, workflow, agent_status, pc, execution_order, pos>>

reset ==
    /\ pc = "idle"
    /\ status' = WS_PENDING
    /\ results' = <<>>
    /\ execution_log' = <<>>
    /\ agent_status' =
          [o \in AgentObjs |->
              IF \E id \in DOMAIN agents : agents[id] = o
              THEN AS_IDLE ELSE agent_status[o]]
    /\ call' = Ok("reset")
    /\ initial_input' = None
    /\ invoked' = <<>>
    /\ entry_status' = agent_status'
    /\ UNCHANGED <<agents, workflow, pc, execution_order, pos>>

-----------------------------------------------------------------------------
(* The orchestrator used by one caller, one API call at a time *)

AllOutputs == UNION { AgentOutputs(o) : o \in AgentObjs }

\* The caller configures the orchestrator while it is pending (new or
\* reset), and executes and resets it in any order.
RegisterStep ==
    /\ status = WS_PENDING
    /\ \E o \in {"a1", "b1", "c1"} : register_agent(o)

AddTaskStep ==
    /\ status = WS_PENDING
    /\ \E id \in AgentIds : \E a \in Arguments(id) : add_task(id, a[1], a[2])

ExecuteStep == \E seed \in SeedInputs : execute(seed)

ProcessReturnStep == \E r \in AllOutputs : process_return(r)

ResetStep == reset

Next ==
    \/ RegisterStep
    \/ AddTaskStep
    \/ ExecuteStep
    \/ ProcessReturnStep
    \/ ResetStep

Spec == Init /\ [][Next]_vars

-----------------------------------------------------------------------------
(***************************************************************************)
(* The orchestrator used by a caller that keeps no order among its calls:  *)
(* it registers agents (a second object under "A" too) and adds tasks at   *)
(* any time between two runs, with or without a reset.                     *)
(***************************************************************************)

\* dependency lists handed to add_task for each agent_id
AnyOrderDeclarations(agent_id) ==
    CASE agent_id = "A" -> { <<>>, <<"B">> }
      [] agent_id = "B" -> { <<"A">> }

RegisterAnyStep == \E o \in {"a1", "a2", "b1"} : register_agent(o)

AddTaskAnyTimeStep ==
    \E id \in {"A", "B"} : \E d \in AnyOrderDeclarations(id) :
        add_task(id, Given(d), Omitted)

ExecuteAnyTimeStep == \E seed \in { None, [x |-> 1] } : execute(seed)

AnyOrderNext ==
    \/ RegisterAnyStep
    \/ AddTaskAnyTimeStep
    \/ ExecuteAnyTimeStep
    \/ ProcessReturnStep
    \/ ResetStep

AnyOrderSpec == Init /\ [][AnyOrderNext]_vars

-----------------------------------------------------------------------------
(***************************************************************************)
(* The agents (src/agents) called directly, as the tests call them.        *)
(*                                                                         *)
(* Python floats.  A cost is a binary floating-point number.  The model    *)
(* keeps the format of IEEE-754 and scales it down: a float is an integer  *)
(* count of the smallest positive float (2^-FractionBits), it has at most  *)
(* MantissaBits significant bits, and every operation returns the exact    *)
(* result rounded to the nearest float, ties to the even mantissa.  (A     *)
(* Python float has 53 significant bits; overflow is not modelled.)        *)
(* Counts, sizes and utilisation figures are Python ints.                  *)
(***************************************************************************)

MantissaBits == 3

FractionBits == 2

RECURSIVE Pow2(_)
Pow2(n) == IF n = 0 THEN 1 ELSE 2 * Pow2(n - 1)

\* the float 1.0
Unit == Pow2(FractionBits)

\* the distance between neighbouring floats around num/den >= 0
RECURSIVE Spacing(_, _, _)
Spacing(num, den, q) ==
    IF num >= den * q * Pow2(MantissaBits)
    THEN Spacing(num, den, 2 * q)
    ELSE q

\* the multiple of q nearest to num/den >= 0 (den > 0), ties to the even
\* multiple
NearestMultiple(num, den, q) ==
    LET lo == num \div (den * q)
        rem == num % (den * q)
    IN  q * (IF 2 * rem < den * q THEN lo
             ELSE IF 2 * rem > den * q THEN lo + 1
             ELSE lo + (lo % 2))

\* the float nearest to num/den >= 0 (den > 0), ties to even
RoundNat(num, den) == NearestMultiple(num, den, Spacing(num, den, 1))

\* the float nearest to num/den (den > 0)
Round(num, den) ==
    IF num >= 0 THEN RoundNat(num, den) ELSE 0 - RoundNat(0 - num, den)

\* float(n) of an int, and n in a float operation
FloatOf(n) == Round(n * Unit, 1)

\* a decimal literal num/den, such as 0.5
Literal(num, den) == Round(num * Unit, den)

FAdd(a, b) == Round(a + b, 1)

FSub(a, b) == Round(a - b, 1)

FMul(a, b) == Round(a * b, Unit)

\* a / b for b # 0
FDiv(a, b) ==
    IF b > 0 THEN Round(a * Unit, b) ELSE Round(0 - a * Unit, 0 - b)

\* d.get(key, default)
Get(d, key, default) == IF key \in DOMAIN d THEN d[key] ELSE default

-----------------------------------------------------------------------------
(* BaseAgent.  An agent object is one instance of each concrete class; an  *)
(* absent message (error=None) is the empty sequence, as in AgentResult.   *)

READER == "reader"         \* ArchitectureReaderAgent()
ANALYZER == "analyzer"     \* EfficiencyAnalyzerAgent()
SIMULATOR == "simulator"   \* CostSimulatorAgent()

ConcreteAgents == { READER, ANALYZER, SIMULATOR }

get_required_inputs(agent) ==
    CASE agent = READER -> <<"cloud_provider", "credentials", "source_type">>
      [] agent = ANALYZER -> <<"architecture">>
      [] agent = SIMULATOR -> <<>>

\* a validation that reports the first missing key only
validate_input_first_missing(agent, input_data) ==
    LET required == get_required_inputs(agent)
        missing == SelectSeq(required, LAMBDA key : key \notin DOMAIN input_data)
    IN  IF missing # <<>>
        THEN [is_valid |-> FALSE,
              error |-> <<"Missing required inputs:", Head(missing)>>]
        ELSE [is_valid |-> TRUE, error |-> <<>>]

\* missing = [key for key in required if key not in input_data]; the message
\* is "Missing required inputs: " and the missing keys joined by ", "
validate_input(agent, input_data) ==
    LET required == get_required_inputs(agent)
        missing == SelectSeq(required, LAMBDA key : key \notin DOMAIN input_data)
    IN  IF missing # <<>>
        THEN [is_valid |-> FALSE,
              error |-> <<"Missing required inputs:">> \o missing]
        ELSE [is_valid |-> TRUE, error |-> <<>>]

\* str(e) of the AttributeError raised by None.get
NoneHasNoGet == "'NoneType' object has no attribute 'get'"

-----------------------------------------------------------------------------
(* EfficiencyAnalyzerAgent (src/agents/agent2_efficiency_analyzer.py).  A  *)
(* finding carries every key of the source but "description", a text that  *)
(* nothing reads.  No LLM client is set, so the LLM pass adds nothing.      *)

Finding(type, resource_id, severity, recommendation, savings, category) ==
    [type |-> type, resource_id |-> resource_id, severity |-> severity,
     recommendation |-> recommendation,
     potential_savings |-> savings, category |-> category]

\* "large" in instance_type.lower() or "xlarge" in instance_type.lower(),
\* on the instance types of the inputs
IsLargeType(instance_type) ==
    instance_type \in { "m5.large", "M5.XLARGE", "c5.2xlarge" }

\* the first loop of _analyze_compute, from instance k on
RECURSIVE Underutilized(_, _)
Underutilized(instances, k) ==
    IF k > Len(instances) THEN <<>>
    ELSE LET instance == instances[k]
             utilization == Get(instance, "utilization", <<>>)
             cpu_util == Get(utilization, "cpu", 0)
             memory_util == Get(utilization, "memory", 0)
         IN  (IF cpu_util < 20 /\ memory_util < 20
              THEN << Finding("underutilized_instance",
                              Get(instance, "id", None), "high",
                              "Consider right-sizing or consolidating instances",
                              FMul(Get(instance, "monthly_cost", 0),
                                   Literal(5, 10)),
                              "compute") >>
              ELSE <<>>) \o Underutilized(instances, k + 1)

\* the second loop of _analyze_compute, from instance k on
RECURSIVE OverProvisioned(_, _)
OverProvisioned(instances, k) ==
    IF k > Len(instances) THEN <<>>
    ELSE LET instance == instances[k]
             instance_type == Get(instance, "instance_type", "")
             utilization == Get(instance, "utilization", <<>>)
         IN  (IF IsLargeType(instance_type) /\ Get(utilization, "cpu", 0) < 30
              THEN << Finding("over_provisioned",
                              Get(instance, "id", None), "medium",
                              "Consider downsizing to a smaller instance type",
                              FMul(Get(instance, "monthly_cost", 0),
                                   Literal(3, 10)),
                              "compute") >>
              ELSE <<>>) \o OverProvisioned(instances, k + 1)

_analyze_compute(compute_data) ==
    LET instances == Get(compute_data, "instances", <<>>)
    IN  Underutilized(instances, 1) \o OverProvisioned(instances, 1)

\* the loop of _analyze_storage, from bucket k on
RECURSIVE StorageFindings(_, _)
StorageFindings(buckets, k) ==
    IF k > Len(buckets) THEN <<>>
    ELSE LET bucket == buckets[k]
             size == Get(bucket, "size_gb", 0)
             last_accessed == Get(bucket, "last_accessed_days_ago", 999)
         IN  (IF size = 0
              THEN << Finding("empty_bucket", Get(bucket, "id", None), "low",
                              "Consider deleting if not needed",
                              Get(bucket, "monthly_cost", 0),
                              "storage") >>
              ELSE IF last_accessed > 90
              THEN << Finding("unused_storage", Get(bucket, "id", None),
                              "medium",
                              "Consider moving to cheaper storage tier or archiving",
                              FMul(Get(bucket, "monthly_cost", 0),
                                   Literal(7, 10)),
                              "storage") >>
              ELSE <<>>) \o StorageFindings(buckets, k + 1)

_analyze_storage(storage_data) ==
    StorageFindings(Get(storage_data, "buckets", <<>>), 1)

\* the loop of _analyze_networking, from load balancer k on
RECURSIVE NetworkingFindings(_, _)
NetworkingFindings(load_balancers, k) ==
    IF k > Len(load_balancers) THEN <<>>
    ELSE LET lb == load_balancers[k]
         IN  (IF Get(lb, "active_connections", 0) = 0
              THEN << Finding("idle_load_balancer", Get(lb, "id", None),
                              "high", "Consider removing if not in use",
                              Get(lb, "monthly_cost", 0),
                              "networking") >>
              ELSE <<>>) \o NetworkingFindings(load_balancers, k + 1)

_analyze_networking(networking_data) ==
    NetworkingFindings(Get(networking_data, "load_balancers", <<>>), 1)

_analyze_security(security_data) ==
    IF Len(Get(security_data, "iam_roles", <<>>)) = 0
    THEN << Finding("missing_iam", "global", "critical",
                    "Implement proper IAM roles and policies", 0,
                    "security") >>
    ELSE <<>>

\* `not focus_areas or area in focus_areas`
InFocus(focus_areas, area) ==
    focus_areas = <<>> \/ \E i \in DOMAIN focus_areas : focus_areas[i] = area

\* _analyze_architecture for an architecture that is a dict
_analyze_architecture(architecture, depth, focus_areas) ==
    (IF InFocus(focus_areas, "compute")
     THEN _analyze_compute(Get(architecture, "compute", <<>>)) ELSE <<>>)
    \o (IF InFocus(focus_areas, "storage")
        THEN _analyze_storage(Get(architecture, "storage", <<>>)) ELSE <<>>)
    \o (IF InFocus(focus_areas, "networking")
        THEN _analyze_networking(Get(architecture, "networking", <<>>))
        ELSE <<>>)
    \o (IF InFocus(focus_areas, "security")
        THEN _analyze_security(Get(architecture, "security", <<>>)) ELSE <<>>)

\* severity_order.get(x.get("severity", "low"), 3)
SeverityRank(x) ==
    LET severity == Get(x, "severity", "low")
    IN  CASE severity = "critical" -> 0
          [] severity = "high" -> 1
          [] severity = "medium" -> 2
          [] OTHER -> 3

\* a sort key that leaves the savings as they are
PriorityKey_savings_ascending(x) ==
    << SeverityRank(x), Get(x, "potential_savings", 0) >>

\* the key of the sort: (severity rank, -potential_savings)
PriorityKey(x) == << SeverityRank(x), 0 - Get(x, "potential_savings", 0) >>

\* key1 < key2 on tuples of two numbers
KeyLess(key1, key2) ==
    key1[1] < key2[1] \/ (key1[1] = key2[1] /\ key1[2] < key2[2])

\* sorted(): stable, so the element k of the input goes behind every element
\* already placed whose key is not greater than its own
RECURSIVE SortedPrefix(_, _)
SortedPrefix(list, k) ==
    IF k = 0 THEN <<>>
    ELSE LET placed == SortedPrefix(list, k - 1)
             x == list[k]
             n == Cardinality({ i \in DOMAIN placed :
                                  ~KeyLess(PriorityKey(x),
                                           PriorityKey(placed[i])) })
         IN  SubSeq(placed, 1, n) \o << x >>
                 \o SubSeq(placed, n + 1, Len(placed))

_prioritize_inefficiencies(inefficiencies) ==
    SortedPrefix(inefficiencies, Len(inefficiencies))

\* sum(...) of a list of numbers: left to right, from 0
RECURSIVE SumFrom(_, _, _)
SumFrom(values, k, acc) ==
    IF k > Len(values) THEN acc
    ELSE SumFrom(values, k + 1, FAdd(acc, values[k]))

Sum(values) == SumFrom(values, 1, 0)

\* [i.get("potential_savings", 0) for i in inefficiencies]
Savings(inefficiencies) ==
    [i \in DOMAIN inefficiencies |->
        Get(inefficiencies[i], "potential_savings", 0)]

\* a by_category loop that stores the last saving of a category
by_category_last(inefficiencies) ==
    LET CategoryOf(x) == Get(x, "category", "other")
        categories == { CategoryOf(inefficiencies[i]) :
                          i \in DOMAIN inefficiencies }
    IN  [c \in categories |->
            LET of_c == SelectSeq(inefficiencies,
                                  LAMBDA x : CategoryOf(x) = c)
            IN  Savings(of_c)[Len(of_c)]]

\* the by_category loop: every category gets its savings added in the order
\* of the list, from 0
by_category(inefficiencies) ==
    LET CategoryOf(x) == Get(x, "category", "other")
        categories == { CategoryOf(inefficiencies[i]) :
                          i \in DOMAIN inefficiencies }
    IN  [c \in categories |->
            Sum(Savings(SelectSeq(inefficiencies,
                                  LAMBDA x : CategoryOf(x) = c)))]

_estimate_savings(inefficiencies) ==
    LET total_savings == Sum(Savings(inefficiencies))
    IN  [total_monthly_savings |-> total_savings,
         total_annual_savings |-> FMul(total_savings, FloatOf(12)),
         by_category |-> by_category(inefficiencies),
         currency |-> "USD"]

\* the issue types of the findings in the order they first appear
RECURSIVE TypeOrder(_)
TypeOrder(inefficiencies) ==
    IF inefficiencies = <<>> THEN <<>>
    ELSE LET front == TypeOrder(SubSeq(inefficiencies, 1,
                                       Len(inefficiencies) - 1))
             issue_type == inefficiencies[Len(inefficiencies)].type
         IN  IF \E i \in DOMAIN front : front[i] = issue_type
             THEN front
             ELSE Append(front, issue_type)

\* one recommendation per issue type, for findings that have a type
_generate_recommendations(inefficiencies) ==
    LET types == TypeOrder(inefficiencies)
    IN  [n \in DOMAIN types |->
            LET issues == SelectSeq(inefficiencies,
                                    LAMBDA x : x.type = types[n])
            IN  [type |-> types[n],
                 count |-> Len(issues),
                 total_potential_savings |-> Sum(Savings(issues)),
                 action |-> Get(issues[1], "recommendation", None),
                 affected_resources |->
                    [i \in DOMAIN issues |->
                        Get(issues[i], "resource_id", None)]]]

\* EfficiencyAnalyzerAgent.process: the result and the status it leaves
Analyzer_process(input_data) ==
    LET validation == validate_input(ANALYZER, input_data)
        architecture == input_data["architecture"]
        analysis_depth == Get(input_data, "analysis_depth", "detailed")
        focus_areas == Get(input_data, "focus_areas", <<>>)
        Analyzed(inefficiencies) ==
            LET Count(severity) ==
                    Cardinality({ i \in DOMAIN inefficiencies :
                                    inefficiencies[i].severity = severity })
            IN  [inefficiencies |-> _prioritize_inefficiencies(inefficiencies),
                 summary |->
                    [total_findings |-> Len(inefficiencies),
                     critical_count |-> Count("critical"),
                     high_count |-> Count("high"),
                     medium_count |-> Count("medium"),
                     low_count |-> Count("low"),
                     estimated_savings |-> _estimate_savings(inefficiencies)],
                 recommendations |-> _generate_recommendations(inefficiencies),
                 analysis_metadata |->
                    [depth |-> analysis_depth,
                     focus_areas |-> IF focus_areas = <<>>
                                     THEN "all" ELSE focus_areas]]
    IN  IF ~validation.is_valid
        THEN [status |-> AS_PROCESSING,
              result |-> AgentResult(FALSE, None, validation.error)]
        ELSE IF architecture = None
        THEN [status |-> AS_ERROR,
              result |-> AgentResult(FALSE, None,
                            <<"Error analyzing efficiency:", NoneHasNoGet>>)]
        ELSE [status |-> AS_COMPLETED,
              result |-> AgentResult(TRUE,
                 Analyzed(_analyze_architecture(architecture, analysis_depth,
                                                focus_areas)),
                 <<>>)]

-----------------------------------------------------------------------------
(* cost_utils (src/agents/cost_utils.py) *)

calculate_monthly_to_annual(monthly_cost) == FMul(monthly_cost, FloatOf(12))

calculate_savings_percentage(original, new) ==
    IF original = 0 THEN 0
    ELSE FMul(FDiv(FSub(original, new), original), FloatOf(100))

\* the categories of a cost breakdown in the insertion order of the dict
CostCategories == <<"compute", "storage", "networking", "security", "other">>

\* max(breakdown.items(), key=lambda x: x[1])[0]: the first greatest entry
largest_category(breakdown) ==
    CostCategories[
        CHOOSE k \in DOMAIN CostCategories :
            /\ \A l \in DOMAIN CostCategories :
                  breakdown[CostCategories[l]] <= breakdown[CostCategories[k]]
            /\ \A l \in 1..(k - 1) :
                  breakdown[CostCategories[l]] < breakdown[CostCategories[k]]]

calculate_total_cost_breakdown(breakdown) ==
    LET total == Sum([k \in DOMAIN CostCategories |->
                         breakdown[CostCategories[k]]])
    IN  [total |-> total,
         breakdown |-> breakdown,
         percentages |->
            [c \in DOMAIN breakdown |->
                IF total > 0
                THEN FMul(FDiv(breakdown[c], total), FloatOf(100))
                ELSE 0],
         largest_category |-> largest_category(breakdown)]

-----------------------------------------------------------------------------
(* CostSimulatorAgent (src/agents/agent3_cost_simulator.py), its currency  *)
(* left at "USD".                                                          *)

\* [r.get("monthly_cost", 0) for r in resources]
MonthlyCosts(resources) ==
    [i \in DOMAIN resources |-> Get(resources[i], "monthly_cost", 0)]

\* a total that leaves the networking entry out
total_without_networking(costs) ==
    Sum(<< costs["compute"], costs["storage"], costs["security"],
           costs["other"] >>)

\* sum(costs.values())
total_of(costs) ==
    Sum([k \in DOMAIN CostCategories |-> costs[CostCategories[k]]])

\* _simulate_current_costs for an architecture that is a dict
_simulate_current_costs(architecture) ==
    LET compute_resources == Get(architecture, "compute", <<>>)
        storage_resources == Get(architecture, "storage", <<>>)
        networking_resources == Get(architecture, "networking", <<>>)
        instances == Get(compute_resources, "instances", <<>>)
        buckets == Get(storage_resources, "buckets", <<>>)
        load_balancers == Get(networking_resources, "load_balancers", <<>>)
        Costed(costs, total, breakdown_analysis) ==
            [current_costs |->
                [monthly |-> total,
                 annual |-> calculate_monthly_to_annual(total),
                 breakdown |-> costs,
                 breakdown_percentages |-> breakdown_analysis.percentages,
                 largest_category |-> breakdown_analysis.largest_category,
                 currency |-> "USD"],
             resource_count |->
                [compute |-> Len(instances),
                 storage |-> Len(buckets),
                 networking |-> Len(load_balancers)]]
        Totalled(costs) ==
            Costed(costs, total_of(costs),
                   calculate_total_cost_breakdown(costs))
    IN  Totalled([compute |-> Sum(MonthlyCosts(instances)),
                  storage |-> Sum(MonthlyCosts(buckets)),
                  networking |-> Sum(MonthlyCosts(load_balancers)),
                  security |-> 0,
                  other |-> 0])

\* int(time_period) of the time periods of the inputs: <<days>>, or <<>> for
\* a ValueError
IntOf(time_period) ==
    CASE time_period = "60" -> << 60 >>
      [] time_period = "45" -> << 45 >>
      [] OTHER -> <<>>

\* the time period multiplier of _simulate_projected_costs
Multiplier(time_period) ==
    IF time_period = "monthly" THEN FloatOf(1)
    ELSE IF time_period = "annual" THEN FloatOf(12)
    ELSE IF IntOf(time_period) # <<>>
    THEN FDiv(FloatOf(IntOf(time_period)[1]), FloatOf(30))
    ELSE FloatOf(1)

\* _simulate_projected_costs for an architecture that is a dict and a list
\* of findings
_simulate_projected_costs(architecture, inefficiencies, time_period) ==
    LET Projected(current, current_monthly, total_savings,
                  projected_monthly) ==
            [current_costs |-> current.current_costs,
             projected_costs |->
                [monthly |-> projected_monthly,
                 annual |-> calculate_monthly_to_annual(projected_monthly),
                 currency |-> "USD"],
             savings |->
                [monthly |-> total_savings,
                 annual |-> calculate_monthly_to_annual(total_savings),
                 percentage |-> calculate_savings_percentage(current_monthly,
                                                             projected_monthly),
                 currency |-> "USD"],
             projection_period |-> time_period,
             projected_total |->
                FMul(projected_monthly, Multiplier(time_period))]
        Saved(current, total_savings) ==
            Projected(current, current.current_costs.monthly, total_savings,
                      FSub(current.current_costs.monthly, total_savings))
    IN  Saved(_simulate_current_costs(architecture),
              Sum(Savings(inefficiencies)))

\* for change in changes: ... from change k on, scenario_cost being cost; a
\* change without "type" has the type None, which equals no type name
RECURSIVE scenario_cost(_, _, _)
scenario_cost(changes, k, cost) ==
    IF k > Len(changes) THEN cost
    ELSE LET change == changes[k]
             change_type == Get(change, "type", "None")
             change_value == Get(change, "value", 0)
         IN  scenario_cost(changes, k + 1,
                 IF change_type = "add_resource"
                 THEN FAdd(cost, change_value)
                 ELSE IF change_type = "remove_resource"
                 THEN FSub(cost, change_value)
                 ELSE IF change_type = "modify_resource"
                 THEN FAdd(cost, change_value)
                 ELSE IF change_type = "scale"
                 THEN FAdd(cost,
                           FMul(Get(change, "affected_cost", 0),
                                FSub(Get(change, "factor", Unit), Unit)))
                 ELSE cost)

\* the body of `for scenario in scenarios`
scenario_result(scenario, current_monthly) ==
    LET changes == Get(scenario, "changes", <<>>)
        Costed(cost) ==
            [name |-> Get(scenario, "name", "Unnamed Scenario"),
             monthly_cost |-> cost,
             annual_cost |-> calculate_monthly_to_annual(cost),
             difference |-> FSub(cost, current_monthly),
             difference_percentage |->
                IF cost < current_monthly
                THEN calculate_savings_percentage(current_monthly, cost)
                ELSE IF cost > current_monthly
                THEN 0 - calculate_savings_percentage(cost, current_monthly)
                ELSE 0,
             changes |-> changes]
    IN  Costed(scenario_cost(changes, 1, current_monthly))

\* _simulate_what_if_scenarios for an architecture that is a dict
_simulate_what_if_scenarios(architecture, scenarios, time_period) ==
    LET Simulated(current) ==
            [current_costs |-> current.current_costs,
             scenarios |->
                [n \in DOMAIN scenarios |->
                    scenario_result(scenarios[n],
                                    current.current_costs.monthly)],
             time_period |-> time_period,
             currency |-> "USD"]
    IN  Simulated(_simulate_current_costs(architecture))

\* a choice of the best scenario that takes the last one of the list
best_of_last(scenario_results) == Len(scenario_results)

\* min(scenario_results, key=lambda x: x["monthly_cost"]) as an index: the
\* first scenario of least cost
best_of(scenario_results) ==
    CHOOSE k \in DOMAIN scenario_results :
        /\ \A l \in DOMAIN scenario_results :
              scenario_results[k].monthly_cost <= scenario_results[l].monthly_cost
        /\ \A l \in 1..(k - 1) :
              scenario_results[k].monthly_cost < scenario_results[l].monthly_cost

\* max(scenario_results, key=lambda x: x["monthly_cost"]) as an index: the
\* first scenario of greatest cost
worst_of(scenario_results) ==
    CHOOSE k \in DOMAIN scenario_results :
        /\ \A l \in DOMAIN scenario_results :
              scenario_results[k].monthly_cost >= scenario_results[l].monthly_cost
        /\ \A l \in 1..(k - 1) :
              scenario_results[k].monthly_cost > scenario_results[l].monthly_cost

\* _compare_scenarios for an architecture that is a dict; the result of
\* _simulate_what_if_scenarios with the entry "comparison" added
_compare_scenarios(architecture, scenarios, time_period) ==
    LET Compared(what_if_results, scenario_results) ==
            LET some == scenario_results # <<>>
                best == scenario_results[best_of(scenario_results)]
                worst == scenario_results[worst_of(scenario_results)]
            IN  [current_costs |-> what_if_results.current_costs,
                 scenarios |-> scenario_results,
                 time_period |-> time_period,
                 currency |-> "USD",
                 comparison |->
                    [best_scenario |-> IF some THEN best ELSE None,
                     worst_scenario |-> IF some THEN worst ELSE None,
                     cost_range |->
                        [min |-> IF some THEN best.monthly_cost ELSE 0,
                         max |-> IF some THEN worst.monthly_cost ELSE 0,
                         spread |->
                            IF some
                            THEN FSub(worst.monthly_cost, best.monthly_cost)
                            ELSE 0]]]
        WhatIf(what_if_results) ==
            Compared(what_if_results, what_if_results.scenarios)
    IN  WhatIf(_simulate_what_if_scenarios(architecture, scenarios,
                                           time_period))

\* `not value` of the list (never None) under key, or of its absence
FalsyList(input_data, key) ==
    key \notin DOMAIN input_data \/ input_data[key] = <<>>

\* CostSimulatorAgent.process: the result and the status it leaves
Simulator_process(input_data) ==
    LET architecture == Get(input_data, "architecture", None)
        simulation_type == Get(input_data, "simulation_type", "current")
        time_period == Get(input_data, "time_period", "monthly")
        scenarios == Get(input_data, "scenarios", <<>>)
        Failed(left, error) ==
            [status |-> left, result |-> AgentResult(FALSE, None, error)]
        Completed(result_data) ==
            [status |-> AS_COMPLETED,
             result |-> AgentResult(TRUE, result_data, <<>>)]
        Error(text) ==
            Failed(AS_ERROR, <<"Error running cost simulation:", text>>)
    IN  IF ~Truthy(architecture) /\ FalsyList(input_data, "inefficiencies")
        THEN Failed(AS_PROCESSING,
                    <<"Either 'architecture' or 'inefficiencies' must be provided">>)
        ELSE IF simulation_type \notin
                   {"current", "projected", "what_if", "comparison"}
        THEN Failed(AS_PROCESSING, <<"Unknown simulation_type:", simulation_type>>)
        ELSE IF architecture = None
        THEN Error(NoneHasNoGet)
        ELSE IF simulation_type = "current"
        THEN Completed(_simulate_current_costs(architecture))
        ELSE IF simulation_type = "projected"
        THEN IF "inefficiencies" \notin DOMAIN input_data
             THEN Error("'NoneType' object is not iterable")
             ELSE Completed(_simulate_projected_costs(
                                architecture, input_data["inefficiencies"],
                                time_period))
        ELSE IF simulation_type = "what_if"
        THEN Completed(_simulate_what_if_scenarios(architecture, scenarios,
                                                   time_period))
        ELSE Completed(_compare_scenarios(architecture, scenarios,
                                          time_period))

-----------------------------------------------------------------------------
(* ArchitectureReaderAgent (src/agents/agent1_architecture_reader.py).     *)
(* Every reader is a placeholder that returns no resources, and no LLM     *)
(* client is set.                                                          *)

\* str.lower() on the texts of the inputs
Lower(text) ==
    CASE text = "AWS" -> "aws"
      [] text = "Terraform" -> "terraform"
      [] OTHER -> text

\* _structure_architecture for raw data whose "resources" is []
_structure_architecture(raw_data, cloud_provider) ==
    [provider |-> cloud_provider,
     resources |-> <<>>,
     services |-> <<>>,
     networking |-> [vpcs |-> <<>>, subnets |-> <<>>,
                     load_balancers |-> <<>>, security_groups |-> <<>>],
     compute |-> [instances |-> <<>>, containers |-> <<>>,
                  serverless |-> <<>>],
     storage |-> [buckets |-> <<>>, databases |-> <<>>, volumes |-> <<>>],
     security |-> [iam_roles |-> <<>>, policies |-> <<>>,
                   certificates |-> <<>>],
     metadata |-> [total_resources |-> Len(Get(raw_data, "resources", <<>>)),
                   extraction_method |-> Get(raw_data, "source", "unknown")]]

\* ArchitectureReaderAgent.process: the result and the status it leaves
Reader_process(input_data) ==
    LET validation == validate_input(READER, input_data)
        cloud_provider == Lower(input_data["cloud_provider"])
        source_type == Lower(input_data["source_type"])
        source_path == Get(input_data, "source_path", None)
        region == Get(input_data, "region", None)
        Failed(left, error) ==
            [status |-> left, result |-> AgentResult(FALSE, None, error)]
        Error(parts) ==
            Failed(AS_ERROR, <<"Error reading architecture:">> \o parts)
        Completed(raw_data) ==
            [status |-> AS_COMPLETED,
             result |-> AgentResult(TRUE,
                [architecture |-> _structure_architecture(raw_data,
                                                          cloud_provider),
                 cloud_provider |-> cloud_provider,
                 region |-> region,
                 source_type |-> source_type,
                 resource_count |-> 0,
                 services |-> <<>>],
                <<>>)]
    IN  IF ~validation.is_valid
        THEN Failed(AS_PROCESSING, validation.error)
        ELSE IF source_type = "api"
        THEN IF cloud_provider \in {"aws", "azure"}
             THEN Completed([provider |-> cloud_provider, resources |-> <<>>,
                             message |-> "API discovery not yet implemented"])
             ELSE Error(<<"Unsupported cloud provider:", cloud_provider>>)
        ELSE IF source_type = "terraform"
        THEN Completed([source |-> "terraform", path |-> source_path,
                        resources |-> <<>>,
                        message |-> "Terraform parsing not yet implemented"])
        ELSE IF source_type = "cloudformation"
        THEN Completed([source |-> IF cloud_provider = "aws"
                                   THEN "cloudformation" ELSE "arm_template",
                        path |-> source_path,
                        resources |-> <<>>,
                        message |-> "Template parsing not yet implemented"])
        ELSE IF source_type = "documentation"
        THEN Error(<<"LLM client not configured for documentation reading">>)
        ELSE Failed(AS_PROCESSING, <<"Unsupported source_type:", source_type>>)

-----------------------------------------------------------------------------
(* Inputs of the direct calls *)

MaxFindings == 3

MaxResources == 2

MaxScenarios == 2

\* all lists of at most n elements of S
ListsUpTo(S, n) == UNION { [1..k -> S] : k \in 0..n }

\* monthly costs and savings: 0.25, 1.0, 3.0, 5.0
Amounts == { Literal(1, 4), FloatOf(1), FloatOf(3), FloatOf(5) }

\* findings as _prioritize_inefficiencies and _estimate_savings get them in
\* the tests: some keys only
Findings ==
    { [severity |-> "critical", potential_savings |-> 0,
       category |-> "security"],
      [severity |-> "high", potential_savings |-> FloatOf(5),
       category |-> "compute"],
      [severity |-> "high", potential_savings |-> FloatOf(3),
       category |-> "networking"],
      [severity |-> "medium", potential_savings |-> FloatOf(5),
       category |-> "storage"],
      [severity |-> "low", potential_savings |-> FloatOf(1),
       category |-> "compute"],
      [severity |-> "urgent", potential_savings |-> Literal(1, 4)],
      [potential_savings |-> FloatOf(3), category |-> "storage"],
      [severity |-> "low", category |-> "compute"] }

FindingLists == ListsUpTo(Findings, MaxFindings)

\* instances, buckets and load balancers that carry a cost, or none
Resources ==
    { [id |-> "r-0"] } \cup { [id |-> "r-1", monthly_cost |-> c] : c \in Amounts }

\* architectures made of costed resources: some instances, at most one
\* bucket and at most one load balancer
CostArchitectures ==
    { [compute |-> [instances |-> i], storage |-> [buckets |-> b],
       networking |-> [load_balancers |-> l]] :
        i \in ListsUpTo(Resources, MaxResources),
        b \in ListsUpTo(Resources, 1),
        l \in ListsUpTo(Resources, 1) }

\* the architecture of the tests, scaled: two instances, two buckets, an
\* idle load balancer and no IAM role
SampleArchitecture ==
    [compute |->
        [instances |->
            << [id |-> "i-1", instance_type |-> "t2.micro",
                monthly_cost |-> FloatOf(5),
                utilization |-> [cpu |-> 10, memory |-> 15]],
               [id |-> "i-2", instance_type |-> "m5.large",
                monthly_cost |-> FloatOf(3),
                utilization |-> [cpu |-> 25, memory |-> 60]] >>],
     storage |->
        [buckets |->
            << [id |-> "b-1", size_gb |-> 0, monthly_cost |-> FloatOf(1)],
               [id |-> "b-2", size_gb |-> 100,
                last_accessed_days_ago |-> 120,
                monthly_cost |-> FloatOf(3)] >>],
     networking |->
        [load_balancers |->
            << [id |-> "lb-1", active_connections |-> 0,
                monthly_cost |-> FloatOf(1)] >>],
     security |-> [iam_roles |-> <<>>, policies |-> <<>>]]

\* an architecture in which nothing is found
BusyArchitecture ==
    [compute |->
        [instances |->
            << [id |-> "i-3", instance_type |-> "t2.micro",
                monthly_cost |-> FloatOf(5),
                utilization |-> [cpu |-> 80, memory |-> 70]] >>],
     storage |->
        [buckets |->
            << [id |-> "b-3", size_gb |-> 10, last_accessed_days_ago |-> 5,
                monthly_cost |-> FloatOf(1)] >>],
     networking |->
        [load_balancers |->
            << [id |-> "lb-2", active_connections |-> 12,
                monthly_cost |-> FloatOf(3)] >>],
     security |-> [iam_roles |-> <<"admin">>]]

\* architectures handed to process: {} and an architecture with a compute
\* section only among them
SampleArchitectures ==
    { <<>>,
      SampleArchitecture,
      BusyArchitecture,
      [compute |-> [instances |-> << [id |-> "i-4"] >>]] }

Scenarios ==
    { [name |-> "Unchanged"],
      [name |-> "Add", changes |-> << [type |-> "add_resource",
                                       value |-> FloatOf(3)] >>],
      [name |-> "Remove", changes |-> << [type |-> "remove_resource",
                                          value |-> FloatOf(1)] >>],
      [name |-> "Swap", changes |-> << [type |-> "add_resource",
                                        value |-> FloatOf(1)],
                                       [type |-> "remove_resource",
                                        value |-> FloatOf(3)] >>],
      [name |-> "Modify", changes |-> << [type |-> "modify_resource",
                                          value |-> FloatOf(1)] >>],
      [changes |-> << [type |-> "scale", factor |-> FloatOf(2),
                       affected_cost |-> FloatOf(3)],
                      [type |-> "resize"] >>] }

ScenarioLists == ListsUpTo(Scenarios, MaxScenarios)

\* with the entries of extra added to every dict of S, and without
WithOrWithout(S, extra) == S \cup { DictUpdate(d, extra) : d \in S }

\* inputs of EfficiencyAnalyzerAgent.process
AnalyzerInputs ==
    { <<>>, [analysis_depth |-> "basic"], [architecture |-> None] }
    \cup WithOrWithout(
            WithOrWithout({ [architecture |-> a] : a \in SampleArchitectures },
                          [focus_areas |-> <<"storage", "security">>]),
            [analysis_depth |-> "comprehensive"])

\* inputs of CostSimulatorAgent.process
SimulatorInputs ==
    LET sources ==
            { <<>>,
              [architecture |-> <<>>],
              [architecture |-> SampleArchitecture],
              [inefficiencies |-> <<>>],
              [inefficiencies |-> << [potential_savings |-> FloatOf(1)] >>],
              [architecture |-> SampleArchitecture,
               inefficiencies |-> << [potential_savings |-> FloatOf(1)] >>],
              [architecture |-> <<>>,
               inefficiencies |-> << [potential_savings |-> FloatOf(1)] >>] }
        typed ==
            sources \cup
            { DictUpdate(d, [simulation_type |-> t]) :
                d \in sources,
                t \in {"current", "projected", "what_if", "comparison",
                       "forecast"} }
    IN  typed
        \cup { DictUpdate(d, [time_period |-> t]) :
                 d \in { e \in typed :
                           Get(e, "simulation_type", "") = "projected" },
                 t \in {"annual", "60", "quarterly"} }
        \cup { DictUpdate(d, [scenarios |-> l]) :
                 d \in { e \in typed :
                           Get(e, "simulation_type", "")
                              \in {"what_if", "comparison"} },
                 l \in { << [name |-> "Add",
                             changes |-> << [type |-> "add_resource",
                                             value |-> FloatOf(3)] >>],
                            [name |-> "Remove",
                             changes |-> << [type |-> "remove_resource",
                                             value |-> FloatOf(1)] >>] >> } }

\* inputs of ArchitectureReaderAgent.process: any of the required keys
\* missing, and the source types and providers
ReaderInputs ==
    LET full ==
            { [cloud_provider |-> c, credentials |-> "profile",
               source_type |-> t] :
                c \in {"aws", "AWS", "azure", "gcp"},
                t \in {"api", "terraform", "Terraform", "cloudformation",
                       "documentation", "diagram"} }
            \cup { [cloud_provider |-> "aws", credentials |-> "profile",
                    source_type |-> "terraform", region |-> "eu-west-1",
                    source_path |-> "main.tfstate"] }
        Restrict(d, keys) == [k \in keys |-> d[k]]
    IN  full
        \cup { Restrict([cloud_provider |-> "aws", credentials |-> "profile",
                         source_type |-> "api", region |-> "eu-west-1"], keys) :
                 keys \in SUBSET {"cloud_provider", "credentials",
                                  "source_type", "region"} }

ProcessInputs(agent) ==
    CASE agent = READER -> ReaderInputs
      [] agent = ANALYZER -> AnalyzerInputs
      [] agent = SIMULATOR -> SimulatorInputs

-----------------------------------------------------------------------------
(* The agents called directly.  A call is recorded in `call` with the      *)
(* agent object and the arguments; the orchestrator is not used.           *)

MethodPending(agent, op, args) ==
    [op |-> op, outcome |-> "pending", error |-> <<>>, value |-> None,
     agent |-> agent, args |-> args]

MethodReturned(agent, op, args, value) ==
    [op |-> op, outcome |-> "returned", error |-> <<>>, value |-> value,
     agent |-> agent, args |-> args]

MethodRaised(agent, op, args, error) ==
    [op |-> op, outcome |-> "raised", error |-> error, value |-> None,
     agent |-> agent, args |-> args]

\* the three agents constructed, and an orchestrator nothing is done with
AgentInit ==
    /\ agents = <<>>
    /\ workflow = <<>>
    /\ status = WS_PENDING
    /\ results = <<>>
    /\ execution_log = <<>>
    /\ agent_status = [o \in ConcreteAgents |-> AS_IDLE]
    /\ pc = "idle"
    /\ execution_order = <<>>
    /\ pos = 0
    /\ initial_input = None
    /\ invoked = <<>>
    /\ entry_status = [o \in ConcreteAgents |-> AS_IDLE]
    /\ call = Ok("init")

Orchestrator_vars ==
    <<agents, workflow, status, results, execution_log, pc, execution_order,
      pos, initial_input, invoked, entry_status>>

\* the caller makes its next call: process or validate_input of an agent
Call(agent, op, args) ==
    /\ call.outcome # "pending"
    /\ call' = MethodPending(agent, op, args)
    /\ UNCHANGED agent_status
    /\ UNCHANGED Orchestrator_vars

\* await agent.process(input_data): the status it leaves, and its result
process(agent) ==
    /\ call.outcome = "pending"
    /\ call.op = "process"
    /\ call.agent = agent
    /\ LET input_data == call.args[1]
           Done(done) ==
               /\ agent_status' = [agent_status EXCEPT ![agent] = done.status]
               /\ call' = MethodReturned(agent, "process", call.args,
                                         done.result)
       IN  Done(CASE agent = READER -> Reader_process(input_data)
                  [] agent = ANALYZER -> Analyzer_process(input_data)
                  [] agent = SIMULATOR -> Simulator_process(input_data))
    /\ UNCHANGED Orchestrator_vars

\* agent.validate_input(input_data) run to its return
ValidateInput(agent) ==
    /\ call.outcome = "pending"
    /\ call.op = "validate_input"
    /\ call.agent = agent
    /\ call' = MethodReturned(agent, "validate_input", call.args,
                              validate_input(agent, call.args[1]))
    /\ UNCHANGED agent_status
    /\ UNCHANGED Orchestrator_vars

CallStep ==
    \E agent \in ConcreteAgents : \E input_data \in ProcessInputs(agent) :
        \E op \in {"process", "validate_input"} :
            Call(agent, op, <<input_data>>)

ProcessStep == \E agent \in ConcreteAgents : process(agent)

ValidateInputStep == \E agent \in ConcreteAgents : ValidateInput(agent)

AgentNext ==
    \/ CallStep
    \/ ProcessStep
    \/ ValidateInputStep

AgentSpec == AgentInit /\ [][AgentNext]_vars

-----------------------------------------------------------------------------
(* The methods of the agents that only compute, each called once on its    *)
(* arguments, as the tests call them.                                      *)

HelperCalls ==
    { MethodPending(ANALYZER, "_prioritize_inefficiencies", << l >>) :
        l \in FindingLists }
    \cup { MethodPending(ANALYZER, "_estimate_savings", << l >>) :
             l \in FindingLists }
    \cup { MethodPending(SIMULATOR, "_simulate_current_costs", << a >>) :
             a \in CostArchitectures \cup SampleArchitectures \cup { None } }
    \cup { MethodPending(SIMULATOR, op, << a, l, "monthly" >>) :
             op \in {"_simulate_what_if_scenarios", "_compare_scenarios"},
             a \in SampleArchitectures, l \in ScenarioLists }

HelperInit ==
    /\ agents = <<>>
    /\ workflow = <<>>
    /\ status = WS_PENDING
    /\ results = <<>>
    /\ execution_log = <<>>
    /\ agent_status = [o \in ConcreteAgents |-> AS_IDLE]
    /\ pc = "idle"
    /\ execution_order = <<>>
    /\ pos = 0
    /\ initial_input = None
    /\ invoked = <<>>
    /\ entry_status = [o \in ConcreteAgents |-> AS_IDLE]
    /\ call \in HelperCalls

\* the pending call of op returns value
HelperReturn(op, value) ==
    /\ call.outcome = "pending"
    /\ call.op = op
    /\ call' = MethodReturned(call.agent, op, call.args, value)
    /\ UNCHANGED agent_status
    /\ UNCHANGED Orchestrator_vars

PrioritizeStep ==
    HelperReturn("_prioritize_inefficiencies",
                 _prioritize_inefficiencies(call.args[1]))

EstimateSavingsStep ==
    HelperReturn("_estimate_savings", _estimate_savings(call.args[1]))

\* _simulate_current_costs(None) raises the AttributeError of None.get
SimulateCurrentCostsStep ==
    /\ call.outcome = "pending"
    /\ call.op = "_simulate_current_costs"
    /\ call' = IF call.args[1] = None
               THEN MethodRaised(call.agent, call.op, call.args,
                                 <<NoneHasNoGet>>)
               ELSE MethodReturned(call.agent, call.op, call.args,
                                   _simulate_current_costs(call.args[1]))
    /\ UNCHANGED agent_status
    /\ UNCHANGED Orchestrator_vars

WhatIfStep ==
    HelperReturn("_simulate_what_if_scenarios",
                 _simulate_what_if_scenarios(call.args[1], call.args[2],
                                             call.args[3]))

CompareScenariosStep ==
    HelperReturn("_compare_scenarios",
                 _compare_scenarios(call.args[1], call.args[2], call.args[3]))

HelperNext ==
    \/ PrioritizeStep
    \/ EstimateSavingsStep
    \/ SimulateCurrentCostsStep
    \/ WhatIfStep
    \/ CompareScenariosStep

HelperSpec == HelperInit /\ [][HelperNext]_vars

-----------------------------------------------------------------------------
(***************************************************************************)
(* _validate_workflow and _topological_sort called on a task list, each    *)
(* once.  Both read self.workflow only; the task lists are those add_task  *)
(* can build from registered agents "A" to "D".                            *)
(***************************************************************************)

GraphIds == <<"A", "B", "C", "D">>

\* the agent object registered under an identifier
GraphAgent(agent_id) ==
    CASE agent_id = "A" -> "a1"
      [] agent_id = "B" -> "b1"
      [] agent_id = "C" -> "c1"
      [] agent_id = "D" -> "d1"

GraphTask(agent_id, dependencies) ==
    AgentTask(GraphAgent(agent_id), agent_id, dependencies, NoMapping)

\* dependency lists of at most two different identifiers, in name order
GraphDependencies ==
    { <<>> }
    \cup { << GraphIds[i] >> : i \in DOMAIN GraphIds }
    \cup { << GraphIds[p[1]], GraphIds[p[2]] >> :
             p \in { q \in (DOMAIN GraphIds) \X (DOMAIN GraphIds) :
                        q[1] < q[2] } }

\* task lists with one task for each of the first identifiers of ids, added
\* in that order
DistinctWorkflows(ids) ==
    UNION { { [i \in 1..k |-> GraphTask(ids[i], deps[i])] :
                deps \in [1..k -> GraphDependencies] } :
            k \in 0..Len(ids) }

\* tasks of "A" and "B" with short dependency lists, one of them repeating
\* an identifier
RepeatableTasks ==
    { GraphTask(id, deps) :
        id \in {"A", "B"},
        deps \in { <<>>, <<"A">>, <<"B">>, <<"C">>, <<"A", "A">>,
                   <<"B", "A">> } }

\* task lists of up to MaxTasks of the tasks, in any order: an identifier may
\* be added again
RepeatingWorkflows(tasks) == UNION { [1..k -> tasks] : k \in 0..MaxTasks }

GraphInit ==
    /\ agents = [id \in Range(GraphIds) |-> GraphAgent(id)]
    /\ workflow \in DistinctWorkflows(GraphIds)
                      \cup RepeatingWorkflows(RepeatableTasks)
    /\ status = WS_PENDING
    /\ results = <<>>
    /\ execution_log = <<>>
    /\ agent_status = [id \in Range(GraphIds) |-> AS_IDLE]
    /\ pc = "idle"
    /\ execution_order = <<>>
    /\ pos = 0
    /\ initial_input = None
    /\ invoked = <<>>
    /\ entry_status = [id \in Range(GraphIds) |-> AS_IDLE]
    /\ call = Ok("init")

\* self._validate_workflow() returns (is_valid, error)
ValidateWorkflowStep ==
    /\ call.op = "init"
    /\ call' = Returned("_validate_workflow", _validate_workflow(workflow))
    /\ UNCHANGED <<agents, workflow, status, results, execution_log,
                   agent_status, pc, execution_order, pos, initial_input,
                   invoked, entry_status>>

\* self._topological_sort() returns the order or raises ValueError
TopologicalSortStep ==
    /\ call.op = "init"
    /\ LET sorted == _topological_sort(workflow)
       IN  call' = IF sorted.raised
                   THEN Raised("_topological_sort", sorted.error)
                   ELSE Returned("_topological_sort", sorted.order)
    /\ UNCHANGED <<agents, workflow, status, results, execution_log,
                   agent_status, pc, execution_order, pos, initial_input,
                   invoked, entry_status>>

GraphNext ==
    \/ ValidateWorkflowStep
    \/ TopologicalSortStep

GraphSpec == GraphInit /\ [][GraphNext]_vars

-----------------------------------------------------------------------------
(***************************************************************************)
(* Two execute() calls on one configured orchestrator whose coroutines     *)
(* interleave: a call runs from its entry, or from the return of the       *)
(* process it awaits, to its next `await` or its end, and the event loop   *)
(* may run the other call in between.  self.status, self.results,          *)
(* self.execution_log and the agents are shared; execution_order, the loop *)
(* position and the outcome are local to each call, so in this             *)
(* specification pc, execution_order, pos, initial_input, invoked,         *)
(* entry_status and call are functions of the call.  A summary is recorded *)
(* with the contents self.results and self.execution_log have when it is   *)
(* returned.                                                               *)
(***************************************************************************)

ExecuteCalls == {1, 2}

\* task lists of the configured orchestrator; the last one fails validation
OverlapWorkflows ==
    { << GraphTask("A", <<>>) >>,
      << GraphTask("A", <<>>), GraphTask("B", <<>>) >>,
      << GraphTask("A", <<>>), GraphTask("B", <<"A">>) >>,
      << GraphTask("B", <<"A">>), GraphTask("A", <<>>) >>,
      << GraphTask("A", <<"B">>) >> }

OverlapInit ==
    /\ agents = [id \in {"A", "B"} |-> GraphAgent(id)]
    /\ workflow \in OverlapWorkflows
    /\ status = WS_PENDING
    /\ results = <<>>
    /\ execution_log = <<>>
    /\ agent_status = [o \in AgentObjs |-> AS_IDLE]
    /\ pc = [c \in ExecuteCalls |-> "idle"]
    /\ execution_order = [c \in ExecuteCalls |-> <<>>]
    /\ pos = [c \in ExecuteCalls |-> 0]
    /\ initial_input = [c \in ExecuteCalls |-> None]
    /\ invoked = [c \in ExecuteCalls |-> <<>>]
    /\ entry_status = [c \in ExecuteCalls |-> [o \in AgentObjs |-> AS_IDLE]]
    /\ call = [c \in ExecuteCalls |-> Ok("init")]

\* where a call gets to from the head of `for agent_id in execution_order`
\* with the k-th identifier next: the end of the loop, an exception of
\* _build_input_data, or the `await` of the task's process; `running` is
\* self.status at that moment, which the loop leaves alone until it ends
RunFrom(order, k, res, log, ast, inv, running) ==
    IF k > Len(order)
    THEN [status |-> WS_COMPLETED, results |-> res, execution_log |-> log,
          agent_status |-> ast, invoked |-> inv, pc |-> "done", pos |-> k,
          call |-> Returned("execute",
                     [status |-> "completed", results |-> res,
                      execution_log |-> log])]
    ELSE LET Started(agent_id, task, built) ==
                 IF built.raised
                 THEN [status |-> WS_FAILED, results |-> res,
                       execution_log |-> log, agent_status |-> ast,
                       invoked |-> inv, pc |-> "done", pos |-> k,
                       call |-> Returned("execute",
                                  [status |-> "failed",
                                   error |-> built.error, results |-> res])]
                 ELSE [status |-> running, results |-> res,
                       execution_log |->
                          Append(log, LogEntry(agent_id, "starting",
                                               built.input_data)),
                       agent_status |->
                          [ast EXCEPT ![task.agent] = AS_PROCESSING],
                       invoked |->
                          Append(inv, [agent_id |-> agent_id,
                                       agent |-> task.agent,
                                       input_data |-> built.input_data]),
                       pc |-> "awaiting", pos |-> k,
                       call |-> Pending("execute")]
             Task(agent_id, task) ==
                 Started(agent_id, task, _build_input_data(task, res))
         IN  Task(order[k], workflow[FirstTaskIndex(workflow, order[k])])

\* call c reaches the point `next`
Reach(c, order, next) ==
    /\ status' = next.status
    /\ results' = next.results
    /\ execution_log' = next.execution_log
    /\ agent_status' = next.agent_status
    /\ invoked' = [invoked EXCEPT ![c] = next.invoked]
    /\ pc' = [pc EXCEPT ![c] = next.pc]
    /\ pos' = [pos EXCEPT ![c] = next.pos]
    /\ execution_order' = [execution_order EXCEPT ![c] = order]
    /\ call' = [call EXCEPT ![c] = next.call]

\* call c of execute(seed), from its entry to its first `await` or its end
execute_overlapping(c, seed) ==
    /\ pc[c] = "idle"
    /\ initial_input' = [initial_input EXCEPT ![c] = seed]
    /\ entry_status' = [entry_status EXCEPT ![c] = agent_status]
    /\ UNCHANGED <<agents, workflow>>
    /\ LET Entered(validation, seeded, sorted) ==
               IF ~validation.valid
               THEN /\ status' = WS_FAILED
                    /\ call' = [call EXCEPT ![c] =
                                  Raised("execute", <<"Invalid workflow:">>
                                                       \o validation.error)]
                    /\ pc' = [pc EXCEPT ![c] = "done"]
                    /\ UNCHANGED <<results, execution_log, agent_status,
                                   invoked, execution_order, pos>>
               ELSE IF sorted.raised
               THEN /\ status' = WS_RUNNING
                    /\ results' = seeded
                    /\ execution_log' = <<>>
                    /\ call' = [call EXCEPT ![c] =
                                  Raised("execute", sorted.error)]
                    /\ pc' = [pc EXCEPT ![c] = "done"]
                    /\ UNCHANGED <<agent_status, invoked, execution_order,
                                   pos>>
               ELSE Reach(c, sorted.order,
                          RunFrom(sorted.order, 1, seeded, <<>>,
                                  agent_status, <<>>, WS_RUNNING))
       IN  Entered(_validate_workflow(workflow),
                   IF Truthy(seed)
                   THEN (INITIAL :> AgentResult(TRUE, seed, <<>>))
                   ELSE <<>>,
                   _topological_sort(workflow))

\* the process awaited by call c returns result; the call goes on to its
\* next `await` or its end, on the self.results and self.execution_log of
\* that moment
process_return_overlapping(c, result) ==
    /\ pc[c] = "awaiting"
    /\ LET Resumed(agent_id, task) ==
               /\ result \in AgentOutputs(task.agent)
               /\ IF ~result.success
                  THEN /\ status' = WS_FAILED
                       /\ results' = DictSet(results, agent_id, result)
                       /\ execution_log' =
                             Append(execution_log,
                                    LogEntry(agent_id, "completed", result))
                       /\ agent_status' =
                             [agent_status EXCEPT ![task.agent] = AS_ERROR]
                       /\ pc' = [pc EXCEPT ![c] = "done"]
                       /\ call' = [call EXCEPT ![c] =
                             Returned("execute",
                                [status |-> "failed", failed_at |-> agent_id,
                                 error |-> result.error, results |-> results'])]
                       /\ UNCHANGED <<invoked, execution_order, pos>>
                  ELSE Reach(c, execution_order[c],
                          RunFrom(execution_order[c], pos[c] + 1,
                             DictSet(results, agent_id, result),
                             Append(execution_log,
                                    LogEntry(agent_id, "completed", result)),
                             [agent_status EXCEPT ![task.agent] = AS_COMPLETED],
                             invoked[c], status))
       IN  Resumed(execution_order[c][pos[c]],
                   workflow[FirstTaskIndex(workflow,
                                           execution_order[c][pos[c]])])
    /\ UNCHANGED <<agents, workflow, initial_input, entry_status>>

OverlapExecuteStep ==
    \E c \in ExecuteCalls : \E seed \in { None, [x |-> 1] } :
        execute_overlapping(c, seed)

OverlapProcessReturnStep ==
    \E c \in ExecuteCalls : \E r \in AllOutputs :
        process_return_overlapping(c, r)

OverlapNext ==
    \/ OverlapExecuteStep
    \/ OverlapProcessReturnStep

OverlapSpec == OverlapInit /\ [][OverlapNext]_vars

-----------------------------------------------------------------------------
(* Vocabulary of the properties *)

TaskIds(wf) == { wf[i].agent_id : i \in DOMAIN wf }

\* the task execute() runs for an identifier
TaskOf(agent_id) == workflow[FirstTaskIndex(workflow, agent_id)]

\* identifiers that a declaration of an identifier in S depends on
DirectDependencies(wf, S) ==
    UNION { Range(wf[i].dependencies) :
              i \in { n \in DOMAIN wf : wf[n].agent_id \in S } }

\* identifiers reachable from S along dependency edges
RECURSIVE DependencyClosure(_, _)
DependencyClosure(wf, S) ==
    LET more == S \cup DirectDependencies(wf, S)
    IN  IF more = S THEN S ELSE DependencyClosure(wf, more)

\* the dependency edges of wf contain a cycle
HasDependencyCycle(wf) ==
    \E id \in TaskIds(wf) :
        id \in DependencyClosure(wf, DirectDependencies(wf, {id}))

\* dependency identifiers of wf that name no task of wf
DanglingDependencies(wf) ==
    DirectDependencies(wf, TaskIds(wf)) \ TaskIds(wf)

\* the last API call was an execute() that has ended
ExecuteEnded == call.op = "execute" /\ call.outcome # "pending"

-----------------------------------------------------------------------------
(* Properties *)

\* C1: for every workflow that passes validation, the execution order
\* computed by _topological_sort (and followed by execute) exists, contains
\* every declared task exactly once and places every task strictly after all
\* of its declared dependencies.
C1_OrderRespectsDependencies ==
    _validate_workflow(workflow).valid =>
        LET sorted == _topological_sort(workflow)
            order == sorted.order
        IN  /\ ~sorted.raised
            /\ Len(order) = Len(workflow)
            /\ \A k, l \in DOMAIN order : order[k] = order[l] => k = l
            /\ \A i \in DOMAIN workflow :
                  \E l \in DOMAIN order :
                     /\ order[l] = workflow[i].agent_id
                     /\ \A j \in DOMAIN workflow[i].dependencies :
                           \E k \in 1..(l - 1) :
                              order[k] = workflow[i].dependencies[j]
            /\ pc = "awaiting" => execution_order = order

\* C2: when a task's process returns a result with success=false, execute()
\* halts in that step: it returns the summary {status: failed, failed_at: the
\* task, error: the result's error, results}, the workflow status is failed,
\* no task later in the execution order has had its process invoked, and the
\* agents of those later tasks have the status they had when the call began.
C2_FailureHaltsTheRun ==
    [][ (/\ pc = "awaiting"
         /\ execution_order[pos] \in DOMAIN results'
         /\ ~results'[execution_order[pos]].success)
        => LET failed == execution_order[pos]
           IN  /\ pc' = "idle"
               /\ status' = WS_FAILED
               /\ call' = Returned("execute",
                             [status |-> "failed", failed_at |-> failed,
                              error |-> results'[failed].error,
                              results |-> results'])
               /\ invoked' = invoked
               /\ \A k \in (pos + 1)..Len(execution_order) :
                     /\ \A n \in DOMAIN invoked' :
                           invoked'[n].agent_id # execution_order[k]
                     /\ agent_status'[TaskOf(execution_order[k]).agent]
                           = entry_status[TaskOf(execution_order[k]).agent]
      ]_vars

\* C2 witness: a run of three tasks has failed at its first task, and the
\* agent of the last task still has the status completed of an earlier run.
C2_Witness ==
    /\ call.op = "execute"
    /\ call.outcome = "returned"
    /\ call.value.status = "failed"
    /\ "failed_at" \in DOMAIN call.value
    /\ Len(execution_order) = 3
    /\ pos = 1
    /\ agent_status[TaskOf(execution_order[3]).agent] = AS_COMPLETED

\* C3: a task that declares no dependencies receives the seed input passed
\* to execute() in its input bundle: every key of a non-empty seed is in the
\* bundle handed to its process, with the seed's value.
C3_SeedReachesRootTasks ==
    \A n \in DOMAIN invoked :
        (TaskOf(invoked[n].agent_id).dependencies = <<>>
            /\ Truthy(initial_input)) =>
        \A key \in DOMAIN initial_input :
            /\ key \in DOMAIN invoked[n].input_data
            /\ invoked[n].input_data[key] = initial_input[key]

\* C4: a task may declare the reserved seed identifier '__initial__' as a
\* dependency: execute() never rejects a workflow because that identifier
\* is not a task of the workflow.
C4_SeedIdentifierIsADependency ==
    (call.op = "execute" /\ call.outcome = "raised") =>
        call.error # <<"Invalid workflow:", "Dependency", INITIAL,
                       "not found in workflow">>

\* C5: if a task declares a dependency that is not the identifier of a task
\* of the workflow, execute() fails validation with an error naming such an
\* identifier before any process is invoked: no agent status changes and
\* nothing is written to the result store or the log.
C5_DanglingDependencyFailsValidation ==
    [][ (/\ pc = "idle"
         /\ call'.op = "execute"
         /\ DanglingDependencies(workflow) # {})
        => /\ call'.outcome = "raised"
           /\ \E d \in DanglingDependencies(workflow) :
                 call'.error = <<"Invalid workflow:", "Dependency", d,
                                 "not found in workflow">>
           /\ status' = WS_FAILED
           /\ invoked' = <<>>
           /\ agent_status' = agent_status
           /\ results' = results
           /\ execution_log' = execution_log
      ]_vars

\* C5 witness: an execute() with a seed was rejected for a dangling
\* dependency of a task whose first dependency is a task of the workflow.
C5_Witness ==
    /\ call.op = "execute"
    /\ call.outcome = "raised"
    /\ Len(call.error) = 4
    /\ call.error[2] = "Dependency"
    /\ initial_input = [x |-> 1]
    /\ results = <<>>
    /\ \E i \in DOMAIN workflow :
          /\ Len(workflow[i].dependencies) = 2
          /\ workflow[i].dependencies[1] \in TaskIds(workflow)
          /\ workflow[i].dependencies[2] = call.error[3]

\* C6: every workflow whose dependency edges contain a cycle is rejected by
\* validation: an execute() of it raises the validation error, leaves the
\* workflow status failed and invokes no process.
C6_CyclesAreRejected ==
    (HasDependencyCycle(workflow) /\ call.op = "execute") =>
        /\ call.outcome = "raised"
        /\ Head(call.error) = "Invalid workflow:"
        /\ status = WS_FAILED
        /\ invoked = <<>>

\* the payload of a completed dependency, None read as no keys
Payload(dep_id) ==
    IF results[dep_id].data = None THEN <<>> ELSE results[dep_id].data

\* C7: for a task with no input mapping, the input bundle is the merge of the
\* payloads of its declared dependencies in declaration order: its keys are
\* the keys of those payloads, and each key has the value of the last
\* declared dependency whose payload has it.
C7_PassthroughMerge ==
    \A n \in DOMAIN invoked :
        LET task == TaskOf(invoked[n].agent_id)
            deps == task.dependencies
            bundle == invoked[n].input_data
        IN  task.input_mapping = <<>> =>
            /\ DOMAIN bundle =
                  UNION { DOMAIN Payload(deps[j]) : j \in DOMAIN deps }
            /\ \A key \in DOMAIN bundle :
                  \E j \in DOMAIN deps :
                     /\ key \in DOMAIN Payload(deps[j])
                     /\ \A l \in (j + 1)..Len(deps) :
                           key \notin DOMAIN Payload(deps[l])
                     /\ bundle[key] = Payload(deps[j])[key]

\* C7 witness: A -> {y: 2}, B (depends on A) -> {y: 5, z: 3}, C (depends on
\* A, B): B received {y: 2} and C received {y: 5, z: 3}, B's y over A's.
C7_Witness ==
    \E b, c \in DOMAIN invoked :
        /\ invoked[b].agent_id = "B"
        /\ TaskOf("B").dependencies = <<"A">>
        /\ TaskOf("B").input_mapping = <<>>
        /\ invoked[b].input_data = [y |-> 2]
        /\ invoked[c].agent_id = "C"
        /\ TaskOf("C").dependencies = <<"A", "B">>
        /\ TaskOf("C").input_mapping = <<>>
        /\ results["B"].data = [y |-> 5, z |-> 3]
        /\ invoked[c].input_data = [y |-> 5, z |-> 3]

\* C8 as stated: for a task with a non-empty input mapping the bundle has
\* only mapped input keys, and neither an unmapped payload key nor the name
\* of a mapped output key ever appears in it.
C8_OnlyRenamedKeys ==
    \A n \in DOMAIN invoked :
        LET task == TaskOf(invoked[n].agent_id)
            deps == task.dependencies
            mapping == task.input_mapping
            bundle == invoked[n].input_data
            output_keys == { mapping[k][1] : k \in DOMAIN mapping }
            input_keys == { mapping[k][2] : k \in DOMAIN mapping }
            payload_keys ==
                UNION { DOMAIN Payload(deps[j]) : j \in DOMAIN deps }
        IN  mapping # <<>> =>
            /\ DOMAIN bundle \subseteq input_keys
            /\ DOMAIN bundle \cap output_keys = {}
            /\ DOMAIN bundle \cap (payload_keys \ output_keys) = {}

\* C8 amended: for a task with a non-empty input mapping the keys of the
\* bundle are exactly the input keys of the (output key -> input key) pairs
\* whose output key is present in the payload of some dependency, and each
\* holds the value of the last such pair in the order of the dependencies
\* and, within a dependency, of the mapping; a payload key or output key
\* name is in the bundle only as such an input key.
C8_MappedKeysOnly ==
    \A n \in DOMAIN invoked :
        LET task == TaskOf(invoked[n].agent_id)
            deps == task.dependencies
            mapping == task.input_mapping
            bundle == invoked[n].input_data
            Sources(key) ==
                { jk \in (DOMAIN deps) \X (DOMAIN mapping) :
                    /\ mapping[jk[2]][2] = key
                    /\ mapping[jk[2]][1] \in DOMAIN Payload(deps[jk[1]]) }
            Before(a, b) == a[1] < b[1] \/ (a[1] = b[1] /\ a[2] <= b[2])
        IN  mapping # <<>> =>
            /\ DOMAIN bundle =
                  { mapping[k][2] :
                      k \in { m \in DOMAIN mapping :
                                \E j \in DOMAIN deps :
                                   mapping[m][1] \in DOMAIN Payload(deps[j]) } }
            /\ \A key \in DOMAIN bundle :
                  \E last \in Sources(key) :
                     /\ \A other \in Sources(key) : Before(other, last)
                     /\ bundle[key] =
                           Payload(deps[last[1]])[mapping[last[2]][1]]

\* C8 witness: B with mapping {y: renamed} over A's payload {y: 2} received
\* exactly {renamed: 2}.
C8_Witness ==
    \E n \in DOMAIN invoked :
        /\ invoked[n].agent_id = "B"
        /\ TaskOf("B").input_mapping = << <<"y", "renamed">> >>
        /\ results["A"].data = [y |-> 2]
        /\ invoked[n].input_data = [renamed |-> 2]

\* C9: reset() empties the result store and the log, sets the workflow
\* status to pending and the status of every registered agent to idle, and
\* leaves the registrations and the task list as they are; an execute() that
\* follows the reset of a run computes the order that run computed.
C9_ResetClearsRunState ==
    [][ /\ (pc = "idle" /\ call'.op = "reset")
           => /\ results' = <<>>
              /\ execution_log' = <<>>
              /\ status' = WS_PENDING
              /\ \A id \in DOMAIN agents : agent_status'[agents[id]] = AS_IDLE
              /\ agents' = agents
              /\ workflow' = workflow
        /\ (/\ call.op = "reset"
            /\ call'.op = "execute"
            /\ execution_order # <<>>
            /\ Len(execution_order) = Len(workflow))
           => execution_order' = execution_order
      ]_vars

\* C9 witness: the orchestrator has been reset after a run of three tasks.
C9_Witness ==
    /\ call.op = "reset"
    /\ Len(workflow) = 3
    /\ Len(execution_order) = 3
    /\ status = WS_PENDING
    /\ results = <<>>

\* C10: if the process of every declared task has returned success=true,
\* execute() returns status completed; and when it returns completed the
\* summary carries the execution log, the workflow status is completed, and
\* the returned results hold a successful result for every declared task and
\* nothing else but the seed entry of a non-empty seed.
C10_AllSucceedCompletes ==
    /\ (/\ ExecuteEnded
        /\ \A i \in DOMAIN workflow :
              /\ \E n \in DOMAIN invoked :
                    invoked[n].agent_id = workflow[i].agent_id
              /\ workflow[i].agent_id \in DOMAIN results
              /\ results[workflow[i].agent_id].success)
       => /\ call.outcome = "returned"
          /\ call.value.status = "completed"
    /\ (/\ call.op = "execute"
        /\ call.outcome = "returned"
        /\ call.value.status = "completed")
       => /\ status = WS_COMPLETED
          /\ "execution_log" \in DOMAIN call.value
          /\ call.value.execution_log = execution_log
          /\ call.value.results = results
          /\ DOMAIN call.value.results =
                TaskIds(workflow) \cup
                   (IF initial_input = None \/ DOMAIN initial_input = {}
                    THEN {} ELSE {INITIAL})
          /\ \A id \in TaskIds(workflow) : call.value.results[id].success

\* C10 witness: a run of three tasks with the seed {x: 1} has completed.
C10_Witness ==
    /\ call.op = "execute"
    /\ call.outcome = "returned"
    /\ call.value.status = "completed"
    /\ Len(workflow) = 3
    /\ initial_input = [x |-> 1]
    /\ INITIAL \in DOMAIN call.value.results

-----------------------------------------------------------------------------
\* C11: an execute() whose workflow has passed validation never raises: any
\* exception of the scheduling step or of the input building is returned as
\* a summary with status failed, the exception's message and the results
\* recorded so far, and the workflow status is failed, never left running.
C11_FaultsAfterValidationAreCaught ==
    (ExecuteEnded /\ _validate_workflow(workflow).valid) =>
        /\ call.outcome = "returned"
        /\ status # WS_RUNNING
        /\ call.value.status = "failed" =>
              /\ status = WS_FAILED
              /\ call.value.results = results

-----------------------------------------------------------------------------
\* the arguments add_task is called with, by identifier
ArgumentsOf == [id \in AgentIds |-> Arguments(id)]

\* C12: add_task with an identifier that is not registered raises and leaves
\* the task list as it is; with a registered identifier it appends exactly
\* one task, bound to the agent object registered under the identifier, with
\* the given dependency list and mapping (empty when omitted); in both cases
\* nothing else of the orchestrator or of the agents changes.  (The steps
\* of add_task are the steps that record add_task as the call.)
C12_AddTaskAppendsOneBoundTask ==
    [][ call'.op = "add_task" =>
          /\ agents' = agents
          /\ status' = status
          /\ results' = results
          /\ execution_log' = execution_log
          /\ agent_status' = agent_status
          /\ \A id \in AgentIds : \A a \in ArgumentsOf[id] :
               add_task(id, a[1], a[2]) =>
                  IF id \in DOMAIN agents
                  THEN /\ call'.outcome = "ok"
                       /\ Len(workflow') = Len(workflow) + 1
                       /\ SubSeq(workflow', 1, Len(workflow)) = workflow
                       /\ workflow'[Len(workflow')] =
                             [agent |-> agents[id], agent_id |-> id,
                              dependencies |->
                                 IF a[1] = Omitted THEN <<>> ELSE a[1][1],
                              input_mapping |->
                                 IF a[2] = Omitted THEN <<>> ELSE a[2][1]]
                  ELSE /\ call'.outcome = "raised"
                       /\ call'.error = <<"Agent", id, "not registered">>
                       /\ workflow' = workflow
      ]_vars

\* C12 witness: with A and B registered, B was added as the second task
\* with a dependency and a mapping, after A with empty arguments.
C12_Witness ==
    /\ call = Ok("add_task")
    /\ Len(workflow) = 2
    /\ workflow[1] = AgentTask("a1", "A", <<>>, <<>>)
    /\ agents = [A |-> "a1", B |-> "b1"]
    /\ workflow[2] = AgentTask("b1", "B", <<"A">>, << <<"y", "renamed">> >>)

-----------------------------------------------------------------------------
\* C13: whenever a process call of an agent has returned, the status of the
\* agent is completed if the result has success = true and error if it has
\* success = false; a call rejected for missing required inputs leaves the
\* status error, not processing.
C13_StatusFollowsResult ==
    (call.op = "process" /\ call.outcome = "returned") =>
        agent_status[call.agent] =
            IF call.value.success THEN AS_COMPLETED ELSE AS_ERROR

-----------------------------------------------------------------------------
\* the required keys of the agent of the last call that its input lacks
MissingKeys ==
    { key \in Range(get_required_inputs(call.agent)) :
        key \notin DOMAIN call.args[1] }

\* C14: validate_input returns (True, None) exactly when every key of
\* get_required_inputs() is in the input, and otherwise (False, message) with
\* a message that names every missing required key; process on an input
\* that lacks a required key returns a failed result carrying that message.
C14_MissingInputsAreReported ==
    /\ (call.op = "validate_input" /\ call.outcome = "returned") =>
          /\ call.value.is_valid = (MissingKeys = {})
          /\ call.value.is_valid => call.value.error = <<>>
          /\ ~call.value.is_valid =>
                /\ Head(call.value.error) = "Missing required inputs:"
                /\ Range(Tail(call.value.error)) = MissingKeys
    /\ (call.op = "process" /\ call.outcome # "pending"
           /\ MissingKeys # {}) =>
          /\ call.outcome = "returned"
          /\ ~call.value.success
          /\ Head(call.value.error) = "Missing required inputs:"
          /\ Range(Tail(call.value.error)) = MissingKeys

\* C14 witness: process of the reader has returned on an input that lacks
\* two of its three required keys.
C14_Witness ==
    /\ call.op = "process"
    /\ call.outcome = "returned"
    /\ call.agent = READER
    /\ Cardinality(MissingKeys) = 2
    /\ ~call.value.success

-----------------------------------------------------------------------------
\* the input of the last call supplies an architecture: a dict, not an
\* empty one
ArchitectureSupplied ==
    /\ "architecture" \in DOMAIN call.args[1]
    /\ Truthy(call.args[1]["architecture"])

\* the input of the last call supplies findings: a list, not an empty one
InefficienciesSupplied ==
    /\ "inefficiencies" \in DOMAIN call.args[1]
    /\ call.args[1]["inefficiencies"] # <<>>

EitherMustBeProvided ==
    <<"Either 'architecture' or 'inefficiencies' must be provided">>

\* C15: CostSimulatorAgent.process works with either "architecture" or
\* "inefficiencies": it returns the failure "Either ... must be provided"
\* only when neither is supplied, and for a known simulation_type it returns
\* a successful result whenever at least one of the two is supplied, also
\* when "inefficiencies" alone is.
C15_EitherInputSuffices ==
    (call.op = "process" /\ call.agent = SIMULATOR
       /\ call.outcome = "returned") =>
        /\ call.value.error = EitherMustBeProvided =>
              ~ArchitectureSupplied /\ ~InefficienciesSupplied
        /\ (/\ ArchitectureSupplied \/ InefficienciesSupplied
            /\ Get(call.args[1], "simulation_type", "current")
                  \in {"current", "projected", "what_if", "comparison"})
              => call.value.success

-----------------------------------------------------------------------------
\* the number of positions of list that hold x
Occurrences(list, x) == Cardinality({ i \in DOMAIN list : list[i] = x })

\* C16: _prioritize_inefficiencies returns a permutation of its input,
\* ordered by severity critical, high, medium, low (a missing or unknown
\* severity ranks as low) and within one severity by non-increasing
\* potential_savings.
C16_PrioritizedBySeverityThenSavings ==
    (call.op = "_prioritize_inefficiencies" /\ call.outcome = "returned") =>
        LET given == call.args[1]
            sorted == call.value
            Rank(x) ==
                IF "severity" \notin DOMAIN x THEN 3
                ELSE CASE x.severity = "critical" -> 0
                       [] x.severity = "high" -> 1
                       [] x.severity = "medium" -> 2
                       [] OTHER -> 3
            SavingsOf(x) ==
                IF "potential_savings" \in DOMAIN x
                THEN x.potential_savings ELSE 0
        IN  /\ Len(sorted) = Len(given)
            /\ \A x \in Range(given) \cup Range(sorted) :
                  Occurrences(sorted, x) = Occurrences(given, x)
            /\ \A i, j \in DOMAIN sorted :
                  i < j =>
                     /\ Rank(sorted[i]) <= Rank(sorted[j])
                     /\ Rank(sorted[i]) = Rank(sorted[j]) =>
                           SavingsOf(sorted[i]) >= SavingsOf(sorted[j])

\* C16 witness: a finding of unknown severity and two high findings in
\* increasing order of savings have been put in the reverse order.
C16_Witness ==
    /\ call.op = "_prioritize_inefficiencies"
    /\ call.outcome = "returned"
    /\ call.args[1] =
          << [severity |-> "urgent", potential_savings |-> Literal(1, 4)],
             [severity |-> "high", potential_savings |-> FloatOf(3),
              category |-> "networking"],
             [severity |-> "high", potential_savings |-> FloatOf(5),
              category |-> "compute"] >>
    /\ call.value =
          << call.args[1][3], call.args[1][2], call.args[1][1] >>

-----------------------------------------------------------------------------
\* the categories of the findings in the order they first appear: the
\* insertion order of the by_category dict
RECURSIVE CategoryOrder(_)
CategoryOrder(inefficiencies) ==
    IF inefficiencies = <<>> THEN <<>>
    ELSE LET front == CategoryOrder(SubSeq(inefficiencies, 1,
                                           Len(inefficiencies) - 1))
             category == Get(inefficiencies[Len(inefficiencies)],
                             "category", "other")
         IN  IF \E i \in DOMAIN front : front[i] = category
             THEN front
             ELSE Append(front, category)

\* sum(by_category.values()) for the findings the dict was built from
EntriesTotal(entries, inefficiencies) ==
    Sum([k \in DOMAIN CategoryOrder(inefficiencies) |->
            entries[CategoryOrder(inefficiencies)[k]]])

\* the sum of the savings as a real number, in units of the smallest float
RECURSIVE ExactSum(_)
ExactSum(values) ==
    IF values = <<>> THEN 0 ELSE Head(values) + ExactSum(Tail(values))

\* the three sums of the result of _estimate_savings, each computed as
\* Python computes a sum of floats: from the left, every addition rounded
SavingsAreSummed(inefficiencies, estimate) ==
    /\ estimate.total_monthly_savings = Sum(Savings(inefficiencies))
    /\ estimate.total_annual_savings =
          FMul(FloatOf(12), estimate.total_monthly_savings)
    /\ DOMAIN estimate.by_category =
          { Get(inefficiencies[i], "category", "other") :
              i \in DOMAIN inefficiencies }
    /\ \A c \in DOMAIN estimate.by_category :
          estimate.by_category[c] =
             Sum(Savings(SelectSeq(inefficiencies,
                    LAMBDA x : Get(x, "category", "other") = c)))

-----------------------------------------------------------------------------
\* the effect of one change on a monthly cost, for the change types of the
\* set applied; any other change leaves the cost as it is
Changed(cost, change, applied) ==
    LET change_type == Get(change, "type", "None")
    IN  IF change_type \notin applied THEN cost
        ELSE CASE change_type = "add_resource" ->
                    FAdd(cost, Get(change, "value", 0))
               [] change_type = "remove_resource" ->
                    FSub(cost, Get(change, "value", 0))
               [] change_type = "modify_resource" ->
                    FAdd(cost, Get(change, "value", 0))
               [] change_type = "scale" ->
                    FAdd(cost, FMul(Get(change, "affected_cost", 0),
                                    FSub(Get(change, "factor", Unit), Unit)))
               [] OTHER -> cost

\* the cost after the changes of a list, applied in order
RECURSIVE CostAfter(_, _, _)
CostAfter(changes, cost, applied) ==
    IF changes = <<>> THEN cost
    ELSE CostAfter(Tail(changes), Changed(cost, Head(changes), applied),
                   applied)

\* every scenario of the comparison has the monthly cost that the changes
\* of the types in applied give, starting from the current monthly cost
ScenarioCostsFollow(applied) ==
    /\ Len(call.value.scenarios) = Len(call.args[2])
    /\ \A n \in DOMAIN call.value.scenarios :
          call.value.scenarios[n].monthly_cost =
             CostAfter(Get(call.args[2][n], "changes", <<>>),
                       call.value.current_costs.monthly, applied)

\* best and worst of the comparison are scenarios of least and of greatest
\* monthly cost, the range is their costs and its spread is not negative;
\* without scenarios best and worst are None and the range is 0
BestAndWorst ==
    LET simulated == call.value.scenarios
        comparison == call.value.comparison
        cost_range == comparison.cost_range
    IN  IF simulated = <<>>
        THEN /\ comparison.best_scenario = None
             /\ comparison.worst_scenario = None
             /\ cost_range = [min |-> 0, max |-> 0, spread |-> 0]
        ELSE /\ \E n \in DOMAIN simulated :
                   comparison.best_scenario = simulated[n]
             /\ \E n \in DOMAIN simulated :
                   comparison.worst_scenario = simulated[n]
             /\ \A n \in DOMAIN simulated :
                   /\ comparison.best_scenario.monthly_cost
                         <= simulated[n].monthly_cost
                   /\ comparison.worst_scenario.monthly_cost
                         >= simulated[n].monthly_cost
             /\ cost_range.min = comparison.best_scenario.monthly_cost
             /\ cost_range.max = comparison.worst_scenario.monthly_cost
             /\ cost_range.spread = FSub(cost_range.max, cost_range.min)
             /\ cost_range.spread >= 0

\* C18 as stated: _compare_scenarios reports as best a scenario of minimal
\* and as worst one of maximal monthly_cost, the monthly_cost of a scenario
\* being the current monthly cost plus the values of its add_resource
\* changes minus the values of its remove_resource changes; the spread
\* max - min is never negative, and with no scenarios best and worst are
\* None and the range is 0.
C18_CostFromAddAndRemove ==
    (call.op = "_compare_scenarios" /\ call.outcome = "returned") =>
        /\ ScenarioCostsFollow({"add_resource", "remove_resource"})
        /\ BestAndWorst

\* C18 amended: as stated, the monthly_cost of a scenario being the current
\* monthly cost changed by every change of the scenario in order: plus the
\* value of an add_resource or modify_resource change, minus the value of a
\* remove_resource change, plus affected_cost * (factor - 1) for a scale
\* change.
C18_CostFromEveryChange ==
    (call.op = "_compare_scenarios" /\ call.outcome = "returned") =>
        /\ ScenarioCostsFollow({"add_resource", "remove_resource",
                                "modify_resource", "scale"})
        /\ BestAndWorst

\* C18 witness: a scenario that scales resources up and one that removes a
\* resource have been compared for the sample architecture; the first is
\* the worst, above the current cost, and the second the best.
C18_Witness ==
    /\ call.op = "_compare_scenarios"
    /\ call.outcome = "returned"
    /\ call.args[1] = SampleArchitecture
    /\ Len(call.value.scenarios) = 2
    /\ call.value.scenarios[1].changes[1].type = "scale"
    /\ call.value.scenarios[2].name = "Remove"
    /\ call.value.comparison.worst_scenario = call.value.scenarios[1]
    /\ call.value.comparison.best_scenario = call.value.scenarios[2]
    /\ call.value.scenarios[1].monthly_cost
          > call.value.current_costs.monthly
    /\ call.value.comparison.cost_range.spread > 0

-----------------------------------------------------------------------------
\* the sum of monthly_cost over the resources of architecture[section][kind]
CostOf(architecture, section, kind) ==
    Sum(MonthlyCosts(Get(Get(architecture, section, <<>>), kind, <<>>)))

\* C19: _simulate_current_costs returns a breakdown whose compute, storage
\* and networking entries are the sums of monthly_cost over the instances,
\* buckets and load balancers of the architecture, a monthly total equal to
\* the sum of the breakdown entries, and an annual total equal to 12 times
\* the monthly total.
C19_CurrentCostsAddUp ==
    (call.op = "_simulate_current_costs" /\ call.outcome = "returned") =>
        LET current_costs == call.value.current_costs
            breakdown == current_costs.breakdown
        IN  /\ breakdown.compute = CostOf(call.args[1], "compute", "instances")
            /\ breakdown.storage = CostOf(call.args[1], "storage", "buckets")
            /\ breakdown.networking =
                  CostOf(call.args[1], "networking", "load_balancers")
            /\ current_costs.monthly =
                  FAdd(FAdd(FAdd(FAdd(FAdd(0, breakdown.compute),
                                      breakdown.storage),
                                 breakdown.networking),
                            breakdown.security),
                       breakdown.other)
            /\ current_costs.annual =
                  FMul(FloatOf(12), current_costs.monthly)

\* C19 witness: the costs of the sample architecture, which has two
\* instances, two buckets and a load balancer, have been simulated.
C19_Witness ==
    /\ call.op = "_simulate_current_costs"
    /\ call.outcome = "returned"
    /\ call.args[1] = SampleArchitecture
    /\ call.value.current_costs.breakdown =
          [compute |-> FloatOf(8), storage |-> FloatOf(4),
           networking |-> FloatOf(1), security |-> 0, other |-> 0]
    /\ call.value.current_costs.monthly
          > call.value.current_costs.breakdown.compute
    /\ call.value.current_costs.annual > call.value.current_costs.monthly

-----------------------------------------------------------------------------
\* C20: when validation rejects a workflow for a cycle, the task named in
\* the error "Circular dependency detected involving X" lies on a dependency
\* cycle, whatever the workflow and the order in which its tasks were added,
\* also when a task that is not on the cycle depends on one that is.
C20_NamedTaskIsOnTheCycle ==
    (/\ call.op = "execute"
     /\ call.outcome = "raised"
     /\ Len(call.error) = 3
     /\ call.error[2] = "Circular dependency detected involving") =>
        call.error[3] \in
            DependencyClosure(workflow,
                              DirectDependencies(workflow, {call.error[3]}))

-----------------------------------------------------------------------------
\* the place of an identifier in a list of identifiers (0: not in it)
PlaceIn(ids, id) ==
    IF \E k \in DOMAIN ids : ids[k] = id
    THEN CHOOSE k \in DOMAIN ids : ids[k] = id
    ELSE 0

\* the largest number of a non-empty set of naturals
Largest(S) == CHOOSE n \in S : \A m \in S : m <= n

\* the step of the sort loop at which the task at index i of wf is put in the
\* queue of order: 0 without dependencies (queued before the loop), else the
\* place in order of the dependency that is taken out last
QueuedAt(wf, order, i) ==
    IF wf[i].dependencies = <<>> THEN 0
    ELSE Largest({ PlaceIn(order, wf[i].dependencies[j]) :
                     j \in DOMAIN wf[i].dependencies })

\* C21: the execution order is the FIFO Kahn order of the declared task
\* list: it holds every declared task once; tasks without dependencies come
\* out first, in the order they were added; every other task is queued when
\* its last dependency is taken out, behind all tasks already queued (tasks
\* queued by the same dependency in the order they were added), and comes out
\* in queue order.  The declared list thereby fixes the order: no two orders
\* of one list satisfy this.
C21_OrderIsFifoKahn ==
    (call.op = "_topological_sort" /\ call.outcome = "returned") =>
        LET order == call.value
        IN  /\ Len(order) = Len(workflow)
            /\ \A i \in DOMAIN workflow :
                  /\ PlaceIn(order, workflow[i].agent_id) > 0
                  /\ QueuedAt(workflow, order, i)
                        < PlaceIn(order, workflow[i].agent_id)
            /\ \A i, j \in DOMAIN workflow :
                  (\/ QueuedAt(workflow, order, i) < QueuedAt(workflow, order, j)
                   \/ /\ QueuedAt(workflow, order, i)
                            = QueuedAt(workflow, order, j)
                      /\ i < j)
                  => PlaceIn(order, workflow[i].agent_id)
                        < PlaceIn(order, workflow[j].agent_id)

\* C21 witness: an order of four tasks in which a task added later comes out
\* before a task added earlier, because its dependency was taken out first.
C21_Witness ==
    /\ call.op = "_topological_sort"
    /\ call.outcome = "returned"
    /\ Len(workflow) = 4
    /\ \E i, j \in DOMAIN workflow :
          /\ i < j
          /\ workflow[i].dependencies # <<>>
          /\ PlaceIn(call.value, workflow[j].agent_id)
                < PlaceIn(call.value, workflow[i].agent_id)

-----------------------------------------------------------------------------
\* the identifiers of the tasks whose process call has returned in the run,
\* in the order of their returns: those of the "completed" log entries
ReturnedTasks ==
    LET completed == SelectSeq(execution_log,
                               LAMBDA e : e.event = "completed")
    IN  [n \in DOMAIN completed |-> completed[n].agent_id]

\* the last call is an execute() that got past validation and scheduling
InARun == call.op = "execute" /\ call.outcome \in {"pending", "returned"}

\* C22: at every point of a run the result store holds the seed entry (iff
\* the seed is a non-empty dict) and exactly the tasks whose process call has
\* returned in this run, which form a prefix of the execution order; the
\* summary of a run that failed at a task carries these results: a successful
\* one for every task before the failing one, the failed result of the
\* failing task, and none for a later task.
C22_ResultsAreAPrefixOfTheOrder ==
    InARun =>
        /\ DOMAIN results \ {INITIAL} = Range(ReturnedTasks)
        /\ INITIAL \in DOMAIN results <=> Truthy(initial_input)
        /\ Len(ReturnedTasks) <= Len(execution_order)
        /\ ReturnedTasks = SubSeq(execution_order, 1, Len(ReturnedTasks))
        /\ (call.outcome = "returned" /\ call.value.status = "failed") =>
              /\ call.value.results = results
              /\ "failed_at" \in DOMAIN call.value =>
                    LET k == PlaceIn(execution_order, call.value.failed_at)
                    IN  /\ k > 0
                        /\ \A i \in 1..(k - 1) :
                              /\ execution_order[i]
                                    \in DOMAIN call.value.results
                              /\ call.value.results[execution_order[i]].success
                        /\ call.value.failed_at \in DOMAIN call.value.results
                        /\ ~call.value.results[call.value.failed_at].success
                        /\ \A i \in (k + 1)..Len(execution_order) :
                              execution_order[i]
                                 \notin DOMAIN call.value.results

\* C22 witness: a run of three tasks has failed at the second task of its
\* order.
C22_Witness ==
    /\ call.op = "execute"
    /\ call.outcome = "returned"
    /\ call.value.status = "failed"
    /\ "failed_at" \in DOMAIN call.value
    /\ Len(execution_order) = 3
    /\ call.value.failed_at = execution_order[2]
    /\ execution_order[1] \in DOMAIN call.value.results

-----------------------------------------------------------------------------
\* list is list_after cut short: appending is all that happened to it
IsPrefix(list, list_after) ==
    /\ Len(list) <= Len(list_after)
    /\ list = SubSeq(list_after, 1, Len(list))

\* the log of a run that has started the tasks of `invoked` and has recorded
\* the results of the first `returned` of them: for the n-th executed task
\* entry 2n-1 is "starting" with its input bundle and entry 2n is
\* "completed" with its result
LogOfTheRun(returned) ==
    /\ Len(execution_log) = Len(invoked) + returned
    /\ \A n \in DOMAIN invoked :
          /\ invoked[n].agent_id = execution_order[n]
          /\ execution_log[2 * n - 1] =
                LogEntry(execution_order[n], "starting", invoked[n].input_data)
    /\ \A n \in 1..returned :
          /\ n \in DOMAIN invoked
          /\ execution_log[2 * n] =
                LogEntry(execution_order[n], "completed",
                         results[execution_order[n]])

\* C23: within one execute() call the tasks run one at a time and the log
\* only grows: every executed task has a "starting" entry with its input
\* bundle followed by a "completed" entry with its result (a failed result
\* too), the next task's "starting" entry comes after the "completed" entry
\* of the current one, the logged identifiers follow the execution order,
\* and a run that has executed k tasks has logged 2k entries (2k - 1 while
\* the k-th task is running).
C23_LogAlternatesInExecutionOrder ==
    /\ [](InARun =>
            /\ LogOfTheRun(Cardinality(DOMAIN results \ {INITIAL}))
            /\ Len(execution_log) =
                  IF pc = "awaiting" THEN 2 * Len(invoked) - 1
                  ELSE 2 * Len(invoked))
    /\ [][pc = "awaiting" => IsPrefix(execution_log, execution_log')]_vars

\* C23 witness: a run has ended at the failure of its second task, with four
\* log entries.
C23_Witness ==
    /\ call.op = "execute"
    /\ call.outcome = "returned"
    /\ call.value.status = "failed"
    /\ Len(invoked) = 2
    /\ Len(execution_log) = 4
    /\ execution_log[4].event = "completed"
    /\ ~execution_log[4].data.success

-----------------------------------------------------------------------------
\* C24: within one execute() call process is invoked at most once for each
\* task and each agent (a failure is not retried); a task has an entry in the
\* result store only once its invocation has returned; the step in which an
\* invocation returns writes the entry of that task, the result returned, and
\* no other; and no entry of the store is overwritten or removed while the
\* call goes on.
C24_InvokedOnceWrittenOnce ==
    /\ [](InARun =>
            /\ \A m, n \in DOMAIN invoked :
                  (\/ invoked[m].agent_id = invoked[n].agent_id
                   \/ invoked[m].agent = invoked[n].agent) => m = n
            /\ \A id \in DOMAIN results \ {INITIAL} :
                  /\ \E n \in DOMAIN invoked : invoked[n].agent_id = id
                  /\ pc = "awaiting" => id # invoked[Len(invoked)].agent_id)
    /\ [][pc = "awaiting" =>
            /\ \A id \in DOMAIN results :
                  id \in DOMAIN results' /\ results'[id] = results[id]
            /\ DOMAIN results' \ DOMAIN results
                  = { invoked[Len(invoked)].agent_id }
            /\ execution_log'[Len(execution_log) + 1].data
                  = results'[invoked[Len(invoked)].agent_id]
         ]_vars

\* C24 witness: a run has ended at a failed result after two invocations,
\* the failing task invoked once.
C24_Witness ==
    /\ call.op = "execute"
    /\ call.outcome = "returned"
    /\ call.value.status = "failed"
    /\ "failed_at" \in DOMAIN call.value
    /\ Len(invoked) = 2
    /\ invoked[2].agent_id = call.value.failed_at
    /\ invoked[1].agent_id # call.value.failed_at
    /\ Cardinality(DOMAIN results \ {INITIAL}) = 2

-----------------------------------------------------------------------------
\* C25: validation is evaluated in full before execute() touches the run
\* state and has no effect of its own: an execute() call on a task list that
\* fails validation raises "Invalid workflow: ..." and changes only the
\* workflow status (to failed); the task list, the registrations, the result
\* store and the log (those of a previous run too) and every agent's status
\* stay as they were; an execute() call on a task list that passes
\* validation leaves the task list and the registrations as they were.
C25_FailedValidationChangesOnlyTheStatus ==
    [][ (pc = "idle" /\ call'.op = "execute") =>
          /\ workflow' = workflow
          /\ agents' = agents
          /\ IF _validate_workflow(workflow).valid
             THEN ~(/\ call'.outcome = "raised"
                    /\ call'.error[1] = "Invalid workflow:")
             ELSE /\ call' = Raised("execute",
                                <<"Invalid workflow:">>
                                   \o _validate_workflow(workflow).error)
                  /\ status' = WS_FAILED
                  /\ results' = results
                  /\ execution_log' = execution_log
                  /\ agent_status' = agent_status
      ]_vars

\* C25 witness: an execute() call has failed validation while the results
\* and the log of a previous, completed run are in place.
C25_Witness ==
    /\ call.op = "execute"
    /\ call.outcome = "raised"
    /\ call.error[1] = "Invalid workflow:"
    /\ status = WS_FAILED
    /\ "A" \in DOMAIN results
    /\ results["A"].success
    /\ Len(execution_log) = 2

-----------------------------------------------------------------------------
\* an identifier has been added to the task list more than once
HasRepeatedIdentifier(wf) == Len(wf) > Cardinality(TaskIds(wf))

\* C26: adding a task under an identifier the task list already holds is a
\* silent append-and-shadow: add_task has raised nothing (the list holds both
\* declarations), and when validation accepts the list execute() does not
\* raise either: it runs each identifier's agent at most once, with the input
\* built from one of the declarations, and ends with a summary.
C26_RepeatedIdentifierIsShadowed ==
    (/\ ExecuteEnded
     /\ HasRepeatedIdentifier(workflow)
     /\ _validate_workflow(workflow).valid)
    => /\ call.outcome = "returned"
       /\ \A m, n \in DOMAIN invoked :
             invoked[m].agent_id = invoked[n].agent_id => m = n
       /\ \A n \in DOMAIN invoked :
             \E i \in DOMAIN workflow :
                /\ workflow[i].agent_id = invoked[n].agent_id
                /\ _build_input_data(workflow[i], results).input_data
                      = invoked[n].input_data

-----------------------------------------------------------------------------
\* C27: in a single execute() call, whenever the input bundle of a task is
\* built every declared dependency of the task has a result in the store and
\* that result is a success (the dependency stands earlier in the execution
\* order); so neither "Dependency X has no result" nor "Dependency X failed"
\* is ever raised: a run fails only at a task whose own result is a failure.
C27_DependenciesHaveSucceeded ==
    InARun =>
        /\ \A n \in DOMAIN invoked :
              \A dep_id \in Range(TaskOf(invoked[n].agent_id).dependencies) :
                 /\ PlaceIn(execution_order, dep_id) \in 1..(n - 1)
                 /\ dep_id \in DOMAIN results
                 /\ results[dep_id].success
        /\ (call.outcome = "returned" /\ call.value.status = "failed") =>
              /\ "failed_at" \in DOMAIN call.value
              /\ call.value.error = results[call.value.failed_at].error
              /\ call.value.error[1] # "Dependency"

\* C27 witness: the input bundle of a task with two dependencies has been
\* built and the task has run.
C27_Witness ==
    /\ InARun
    /\ \E n \in DOMAIN invoked :
          /\ Len(TaskOf(invoked[n].agent_id).dependencies) = 2
          /\ invoked[n].agent_id \in DOMAIN results

-----------------------------------------------------------------------------
\* C28: the two cycle detectors agree on every task list whose identifiers
\* are pairwise distinct: _validate_workflow accepts the list exactly when
\* _topological_sort returns an order of all its tasks; so on a list that
\* has passed validation the sort does not raise "Workflow has circular
\* dependencies".
C28_ValidatorAndSortAgree ==
    ~HasRepeatedIdentifier(workflow) =>
        /\ call.op = "_topological_sort" =>
              /\ call.outcome = "returned"
                    <=> _validate_workflow(workflow).valid
              /\ call.outcome = "returned"
                    => Len(call.value) = Len(workflow)
              /\ call.outcome = "raised"
                    => call.error = <<"Workflow has circular dependencies">>
        /\ call.op = "_validate_workflow" =>
              (call.value.valid <=> ~_topological_sort(workflow).raised)

\* C28 witness: the sort has raised on a list of four tasks with distinct
\* identifiers and no dangling reference: a cycle that both detectors find.
C28_Witness ==
    /\ call.op = "_topological_sort"
    /\ call.outcome = "raised"
    /\ Len(workflow) = 4
    /\ ~HasRepeatedIdentifier(workflow)
    /\ DanglingDependencies(workflow) = {}
    /\ workflow[1].dependencies = <<>>

-----------------------------------------------------------------------------
\* C29: after any sequence of register_agent, add_task, execute and reset
\* calls the agent object bound to each declared task is the agent registered
\* under the task's identifier at that moment; hence after reset() every
\* agent that a declared task runs is idle, also when the identifier was
\* registered again with another agent object after the task was added.
C29_TasksRunTheRegisteredAgent ==
    /\ \A i \in DOMAIN workflow :
          /\ workflow[i].agent_id \in DOMAIN agents
          /\ workflow[i].agent = agents[workflow[i].agent_id]
    /\ call.op = "reset" =>
          \A i \in DOMAIN workflow : agent_status[workflow[i].agent] = AS_IDLE

-----------------------------------------------------------------------------
\* one of the two calls was entered while the other was suspended in the
\* process of an agent
Overlapped ==
    \E c \in ExecuteCalls : \E o \in AgentObjs :
        entry_status[c][o] = AS_PROCESSING

\* C30: when two execute() calls on one orchestrator overlap, every call
\* that returns status completed returns results that hold a successful
\* result for every declared task: the other call's reset of the shared
\* result store removes nothing from what a call returns.
C30_OverlappingCallsReturnAllResults ==
    Overlapped =>
        \A c \in ExecuteCalls :
            (/\ call[c].op = "execute"
             /\ call[c].outcome = "returned"
             /\ call[c].value.status = "completed")
            => \A id \in TaskIds(workflow) :
                  /\ id \in DOMAIN call[c].value.results
                  /\ call[c].value.results[id].success
====
